---------------------------- MODULE Spec2Model ----------------------------
(***************************************************************************)
(* A model of the AC3D (.ac) importer and exporters of io_scene_ac3d.      *)
(*                                                                         *)
(* Text is modelled as sequences of atoms.  An atom is a string standing   *)
(* for a run of characters without whitespace and without a double quote   *)
(* (a keyword, a numeral, a piece of a name), or it is the blank " ", or   *)
(* the double quote.  A line is a sequence of atoms (its newline left      *)
(* out), a file a sequence of lines.                                       *)
(***************************************************************************)
EXTENDS Integers, Sequences, FiniteSets, TLC

(***************************************************************************)
(* Python string operations.                                               *)
(***************************************************************************)
SP == " "
QT == "\""

IsWS(a) == a = SP

RECURSIVE SplitFrom(_, _, _, _)
SplitFrom(s, i, cur, acc) ==
    IF i > Len(s)
    THEN IF cur = <<>> THEN acc ELSE Append(acc, cur)
    ELSE IF IsWS(s[i])
         THEN SplitFrom(s, i + 1, <<>>, IF cur = <<>> THEN acc ELSE Append(acc, cur))
         ELSE SplitFrom(s, i + 1, Append(cur, s[i]), acc)

\* str.split(): the maximal runs of non-blank atoms, in order
Split(s) == SplitFrom(s, 1, <<>>, <<>>)

RECURSIVE LStripOf(_, _)
LStripOf(s, c) == IF s # <<>> /\ Head(s) = c THEN LStripOf(Tail(s), c) ELSE s

RECURSIVE RStripOf(_, _)
RStripOf(s, c) ==
    IF s # <<>> /\ s[Len(s)] = c THEN RStripOf(SubSeq(s, 1, Len(s) - 1), c) ELSE s

\* str.strip(): leading and trailing blanks removed
Strip(s) == RStripOf(LStripOf(s, SP), SP)

\* str.strip('"')
StripQuote(s) == RStripOf(LStripOf(s, QT), QT)

\* re.sub('["]', '', s) and str.replace('"', '')
RECURSIVE RemoveQuotes(_)
RemoveQuotes(s) ==
    IF s = <<>> THEN <<>>
    ELSE IF Head(s) = QT THEN RemoveQuotes(Tail(s))
         ELSE <<Head(s)>> \o RemoveQuotes(Tail(s))

\* s[:n]
Prefix(s, n) == SubSeq(s, 1, IF n < Len(s) THEN n ELSE Len(s))

\* s[a:b] with 0-based a, exclusive b, clipped as Python clips slices
Slice(s, a, b) == SubSeq(s, a + 1, IF b < Len(s) THEN b ELSE Len(s))

\* the tokens joined by single blanks
RECURSIVE Join(_)
Join(toks) ==
    IF toks = <<>> THEN <<>>
    ELSE IF Len(toks) = 1 THEN toks[1]
         ELSE toks[1] \o <<SP>> \o Join(Tail(toks))

(***************************************************************************)
(* Numerals.  int() and float() are table look-ups on the numerals the     *)
(* model uses; any other token makes them raise ValueError.                *)
(***************************************************************************)
Digits == <<"0", "1", "2", "3", "4", "5", "6", "7", "8", "9">>

\* '{0}'.format(n) for a non-negative integer: its decimal digits
RECURSIVE IntStr(_)
IntStr(n) ==
    IF n < 10 THEN <<Digits[n + 1]>>
    ELSE IntStr(n \div 10) \o <<Digits[(n % 10) + 1]>>

IsDigit(a) == \E i \in 1..Len(Digits) : Digits[i] = a

DigitVal(a) == (CHOOSE i \in 1..Len(Digits) : Digits[i] = a) - 1

IsInt(tok) == tok # <<>> /\ \A i \in 1..Len(tok) : IsDigit(tok[i])

RECURSIVE IntFold(_, _)
IntFold(ds, acc) ==
    IF ds = <<>> THEN acc ELSE IntFold(Tail(ds), acc * 10 + DigitVal(Head(ds)))

\* int(tok)
IntOf(tok) == IntFold(tok, 0)

\* floats are kept as integers in units of 1e-5 (0.5 is 50000)
FloatNumerals ==
    <<  <<"0", 0>>, <<"1", 100000>>, <<"2", 200000>>, <<"3", 300000>>,
        <<"10", 1000000>>, <<"11", 1100000>>,
        <<"0.2", 20000>>, <<"0.5", 50000>>,
        <<"0.0000", 0>>, <<"1.0000", 100000>>, <<"0.2000", 20000>>,
        <<"0.5000", 50000>>, <<"0.0001", 10>>, <<"0.0002", 20>>,
        <<"0.000000", 0>>, <<"1.000000", 100000>>,
        <<"0.00000000", 0>>, <<"1.00000000", 100000>>,
        <<"0.0", 0>>, <<"1.0", 100000>>, <<"2.0", 200000>>,
        <<"2.0000", 200000>>, <<"2.000000", 200000>>, <<"2.00000000", 200000>>,
        <<"0.200000", 20000>>, <<"0.20000000", 20000>>,
        <<"0.500000", 50000>>, <<"0.50000000", 50000>>,
        <<"0.20004", 20004>>, <<"0.200040", 20004>>, <<"0.20004000", 20004>> >>

InFloatNumerals(tok) ==
    Len(tok) = 1 /\ \E i \in 1..Len(FloatNumerals) : FloatNumerals[i][1] = tok[1]

IsFloat(tok) == InFloatNumerals(tok) \/ IsInt(tok)

\* float(tok)
FloatOf(tok) ==
    IF InFloatNumerals(tok)
    THEN FloatNumerals[CHOOSE i \in 1..Len(FloatNumerals) : FloatNumerals[i][1] = tok[1]][2]
    ELSE IntOf(tok) * 100000

\* str.format of a float the model uses: '{0}', '{0:.4f}', '{0:.6f}' and
\* '{0:.8f}'; 0.20004 is the one value that '.4f' rounds
FloatFormats ==
    <<  [v |-> 0, r |-> "0.0", f4 |-> "0.0000", f6 |-> "0.000000", f8 |-> "0.00000000"],
        [v |-> 100000, r |-> "1.0", f4 |-> "1.0000", f6 |-> "1.000000", f8 |-> "1.00000000"],
        [v |-> 200000, r |-> "2.0", f4 |-> "2.0000", f6 |-> "2.000000", f8 |-> "2.00000000"],
        [v |-> 20000, r |-> "0.2", f4 |-> "0.2000", f6 |-> "0.200000", f8 |-> "0.20000000"],
        [v |-> 50000, r |-> "0.5", f4 |-> "0.5000", f6 |-> "0.500000", f8 |-> "0.50000000"],
        [v |-> 20004, r |-> "0.20004", f4 |-> "0.2000", f6 |-> "0.200040",
         f8 |-> "0.20004000"] >>

FormatRow(v) == FloatFormats[CHOOSE i \in 1..Len(FloatFormats) : FloatFormats[i].v = v]

FloatStr(v) == <<FormatRow(v).r>>
Fixed4(v) == <<FormatRow(v).f4>>
Fixed6(v) == <<FormatRow(v).f6>>
Fixed8(v) == <<FormatRow(v).f8>>

AllFloat(toks) == \A i \in 1..Len(toks) : IsFloat(toks[i])

FloatsOf(toks) == [i \in 1..Len(toks) |-> FloatOf(toks[i])]

\* hexadecimal digits and int(s, 16): an optional 0x or 0X, then digits
HexDigits == <<"0", "1", "2", "3", "4", "5", "6", "7", "8", "9",
               "A", "B", "C", "D", "E", "F">>
HexLower == <<"0", "1", "2", "3", "4", "5", "6", "7", "8", "9",
              "a", "b", "c", "d", "e", "f">>

IsHexDigit(a) == \E i \in 1..16 : HexDigits[i] = a \/ HexLower[i] = a

HexVal(a) == (CHOOSE i \in 1..16 : HexDigits[i] = a \/ HexLower[i] = a) - 1

HexBody(tok) ==
    IF tok # <<>> /\ Head(tok) \in {"0x", "0X"} THEN Tail(tok) ELSE tok

IsHex(tok) ==
    /\ HexBody(tok) # <<>>
    /\ \A i \in 1..Len(HexBody(tok)) : IsHexDigit(HexBody(tok)[i])

RECURSIVE HexFold(_, _)
HexFold(ds, acc) ==
    IF ds = <<>> THEN acc ELSE HexFold(Tail(ds), acc * 16 + HexVal(Head(ds)))

\* int(tok, 16)
HexOf(tok) == HexFold(HexBody(tok), 0)

\* '{0:#X}'.format(n) for n below 256
HexStr(n) ==
    <<"0X">> \o (IF n < 16 THEN <<HexDigits[n + 1]>>
                 ELSE <<HexDigits[(n \div 16) + 1], HexDigits[(n % 16) + 1]>>)

(***************************************************************************)
(* The importer, import_ac3d.py.                                           *)
(*                                                                         *)
(* ac_file is the input file and pos the number of its physical lines the  *)
(* file object has handed out.  The recursive descent of the reader is     *)
(* kept as a stack of frames, the innermost call last; one action is one   *)
(* iteration of the loop of the innermost call.                            *)
(***************************************************************************)
VARIABLES
    ac_file,        \* the lines of the input file
    pos,            \* physical lines read so far
    file_state,     \* "open" or "closed"
    header,         \* ImportAC3D.header
    reports,        \* operator.report calls, in order
    matlist,        \* ImportAC3D.matlist
    oblist,         \* ImportAC3D.oblist, as indices into objs
    objs,           \* every AcObj constructed, in order of construction
    stack,          \* the active calls of the reader
    lastline,       \* ImportAC3D.lastline
    readPrevious,   \* ImportAC3D.readPrevious
    line_num,       \* ImportAC3D.line_num
    todo,           \* objects whose create_blender_object call is pending
    pc,             \* "header", "read", "create", "done", "rejected", "crashed"
    exc             \* the exception that left ImportAC3D, or "none"

import_vars == <<ac_file, pos, file_state, header, reports, matlist, oblist, objs,
                 stack, lastline, readPrevious, line_num, todo, pc, exc>>

Tok(w) == <<w>>

\* the first word of a line as a dictionary key ("" matches no key)
Key(toks) == IF toks # <<>> /\ Len(toks[1]) = 1 THEN toks[1][1] ELSE ""

LowerAtom(a) ==
    CASE a = "WORLD" -> "world" [] a = "World" -> "world"
      [] a = "POLY" -> "poly"   [] a = "Poly" -> "poly"
      [] a = "GROUP" -> "group" [] a = "Group" -> "group"
      [] OTHER -> a

\* str.lower() of an object type
Lower(tok) == [i \in 1..Len(tok) |-> LowerAtom(tok[i])]

NoSurf == [flags |-> [type |-> 0, shaded |-> FALSE, two_sided |-> FALSE],
           mat_index |-> 0, refs |-> <<>>, uv_refs |-> <<>>]

Frame(k, obj, n) == [k |-> k, obj |-> obj, n |-> n, surf |-> NoSurf]

Top(st) == st[Len(st)]
Pop(st) == SubSeq(st, 1, Len(st) - 1)

\* AcObj.__init__: the fields of a fresh object.  Two fields are kept for
\* the record only: kids, the count its kids line declared (-1: no kids line
\* read), and at, the physical line of its OBJECT line.
NewAcObj(ob_type, parent, at) ==
    [type |-> ob_type, ac_parent |-> parent, at |-> at, name |-> <<>>, data |-> <<>>,
     tex_name |-> <<>>, location |-> <<0, 0, 0>>, url |-> <<>>,
     vert_list |-> <<>>, surf_list |-> <<>>, face_list |-> <<>>,
     surf_face_list |-> <<>>, edge_list |-> <<>>, face_mat_list |-> <<>>,
     texrep |-> <<100000, 100000>>, texoff |-> <<0, 0>>, rotation |-> <<>>,
     subdiv |-> 0, crease |-> 6100000,
     children |-> <<>>, hidden |-> FALSE, readPrevious |-> FALSE,
     kids |-> -1, created |-> FALSE, show_double_sided |-> FALSE]

\* The reader's state as one record, so that a handler is a function on it.
Cur == [pos |-> pos, lastline |-> lastline, readPrevious |-> readPrevious,
        line_num |-> line_num, stack |-> stack, objs |-> objs, oblist |-> oblist,
        matlist |-> matlist, reports |-> reports, exc |-> "none",
        line |-> <<>>, none |-> FALSE, eof |-> FALSE]

Raise(S, e) == [S EXCEPT !.exc = e]

Report(S, level, msg) ==
    [S EXCEPT !.reports = Append(@, [level |-> level, msg |-> msg])]

\* index of the first line after p that holds a word, 0 when there is none
RECURSIVE NextWordLine(_, _)
NextWordLine(f, p) ==
    IF p >= Len(f) THEN 0
    ELSE IF Split(f[p + 1]) # <<>> THEN p + 1 ELSE NextWordLine(f, p + 1)

readLine_mutant(S) ==
    IF S.pos >= Len(ac_file)
    THEN [S EXCEPT !.none = TRUE, !.line = <<>>]
    ELSE [S EXCEPT !.none = FALSE, !.line = ac_file[S.pos + 1],
                   !.lastline = ac_file[S.pos + 1],
                   !.line_num = @ + 1, !.pos = @ + 1]

readLine_again(S) ==
    LET q == NextWordLine(ac_file, S.pos) IN
    IF q = 0
    THEN [S EXCEPT !.none = FALSE, !.line = S.lastline, !.line_num = @ + 1]
    ELSE [S EXCEPT !.none = FALSE, !.line = ac_file[q], !.lastline = ac_file[q],
                   !.line_num = @ + (q - S.pos), !.pos = q]

\* ImportAC3D.readLine: S.none tells that it returned None, S.line is the line
readLine(S) ==
    IF S.readPrevious = FALSE
    THEN LET q == NextWordLine(ac_file, S.pos) IN
         IF q = 0
         THEN [S EXCEPT !.none = TRUE, !.line = <<>>,
                        !.line_num = @ + (Len(ac_file) - S.pos),
                        !.pos = Len(ac_file)]
         ELSE [S EXCEPT !.none = FALSE, !.line = ac_file[q], !.lastline = ac_file[q],
                        !.line_num = @ + (q - S.pos), !.pos = q]
    ELSE [S EXCEPT !.none = FALSE, !.line = S.lastline, !.readPrevious = FALSE,
                   !.line_num = @ + 1]

AcSurfFlags_mutant(flags) ==
    LET i == HexOf(flags)
    IN  [type |-> i % 16, shaded |-> (i % 2 = 1), two_sided |-> ((i \div 2) % 2 = 1)]

\* AcSurf.AcSurfFlags.__init__
AcSurfFlags(flags) ==
    LET i == HexOf(flags)
        j == i \div 16
    IN  [type |-> i % 16, shaded |-> (j % 2 = 1), two_sided |-> ((j \div 2) % 2 = 1)]

\* what int(toks[i]) and float(toks[i]) raise (toks[i] is Python's toks[i-1])
ErrInt(toks, i) ==
    IF Len(toks) < i THEN "IndexError"
    ELSE IF ~IsInt(toks[i]) THEN "ValueError" ELSE "none"

ErrFloat(toks, i) ==
    IF Len(toks) < i THEN "IndexError"
    ELSE IF ~IsFloat(toks[i]) THEN "ValueError" ELSE "none"

Push(S, f) == [S EXCEPT !.stack = Append(@, f)]
SetTop(S, f) == [S EXCEPT !.stack[Len(S.stack)] = f]

\* The AcObj constructor returns.  Its caller appends the object: read_object
\* to oblist, read_children to the parent's children, and read_children
\* returns True, which ends the parent in turn, once its count is used up.
RECURSIVE FinishObj(_)
FinishObj(S) ==
    LET id == Top(S.stack).obj
        rest == Pop(S.stack)
    IN  IF rest = <<>>
        THEN [S EXCEPT !.stack = <<>>, !.oblist = Append(@, id)]
        ELSE LET kf == Top(rest)
                 S1 == [S EXCEPT !.stack = rest,
                                 !.objs[kf.obj].children = Append(@, id)]
             IN  IF kf.n = 0
                 THEN FinishObj([S1 EXCEPT !.stack = Pop(rest)])
                 ELSE S1

\* read_children leaves its loop early and returns True
KidsBreak(S) == FinishObj([S EXCEPT !.stack = Pop(@)])

FinishSurf_mutant(S) ==
    LET sf == Top(S.stack)
        rest == Pop(S.stack)
        lf == Top(rest)
    IN  [S EXCEPT !.stack = IF lf.n = 0 THEN Pop(rest) ELSE rest,
                  !.objs[lf.obj].surf_list = Append(@, sf.surf)]

\* The AcSurf constructor returns to read_surfaces, which keeps the surface
\* unless it is a polygon with fewer than 3 refs.
FinishSurf(S) ==
    LET sf == Top(S.stack)
        rest == Pop(S.stack)
        lf == Top(rest)
        keep == sf.surf.flags.type # 0 \/ Len(sf.surf.refs) > 2
    IN  [S EXCEPT !.stack = IF lf.n = 0 THEN Pop(rest) ELSE rest,
                  !.objs[lf.obj].surf_list = IF keep THEN Append(@, sf.surf) ELSE @]

\* AcObj(ob_type, ...) is entered: a new object and its read_ac_object call
EnterObj(S, ob_type, parent) ==
    [S EXCEPT !.objs = Append(@, NewAcObj(ob_type, parent, S.pos)),
              !.stack = Append(@, Frame("obj", Len(S.objs) + 1, 0))]

hide_hidden_objects == FALSE

RECURSIVE DataRest(_, _, _)
DataRest(S, chars, count) ==
    IF chars > count
    THEN LET S1 == readLine(S) IN
         IF S1.none THEN Raise(S1, "TypeError")
         ELSE DataRest(S1, chars, count + Len(S1.line) + 1)
    ELSE S

\* AcObj.read_data
read_data(S, id, toks) ==
    LET S1 == readLine(S) IN
    IF ErrInt(toks, 2) # "none" THEN Raise(S1, ErrInt(toks, 2))
    ELSE IF S1.none THEN Raise(S1, "TypeError")
    ELSE LET chars == IntOf(toks[2]) IN
         DataRest([S1 EXCEPT !.objs[id].data = Prefix(S1.line, chars)],
                  chars, Len(S1.line) + 1)

read_name_mutant(S, id, toks) ==
    IF Len(toks) < 2 THEN Raise(S, "IndexError")
    ELSE [S EXCEPT !.objs[id].name = toks[2]]

\* AcObj.read_name
read_name(S, id, toks) ==
    IF Len(toks) < 2 THEN Raise(S, "IndexError")
    ELSE [S EXCEPT !.objs[id].name = StripQuote(toks[2])]

\* AcObj.read_url
read_url(S, id, toks) ==
    IF Len(toks) < 2 THEN Raise(S, "IndexError")
    ELSE [S EXCEPT !.objs[id].url = StripQuote(toks[2])]

\* AcObj.read_texture
read_texture(S, id, toks) ==
    IF Len(toks) < 2 THEN Raise(S, "IndexError")
    ELSE [S EXCEPT !.objs[id].tex_name = StripQuote(toks[2])]

\* AcObj.read_location: Vector() wants 2 to 4 numbers
read_location(S, id, toks) ==
    LET xs == Slice(toks, 1, 4) IN
    IF ~AllFloat(xs) \/ Len(xs) < 2 THEN Raise(S, "ValueError")
    ELSE [S EXCEPT !.objs[id].location = FloatsOf(xs)]

\* AcObj.read_rotation: Matrix() wants three rows of equal length
read_rotation(S, id, toks) ==
    LET xs == Slice(toks, 1, 10) IN
    IF ~AllFloat(xs) \/ Len(xs) < 9 THEN Raise(S, "ValueError")
    ELSE [S EXCEPT !.objs[id].rotation = FloatsOf(xs)]

\* AcObj.read_texrep
read_texrep(S, id, toks) ==
    IF ErrFloat(toks, 2) # "none" THEN Raise(S, ErrFloat(toks, 2))
    ELSE IF ErrFloat(toks, 3) # "none"
         THEN Raise([S EXCEPT !.objs[id].texrep[1] = FloatOf(toks[2])], ErrFloat(toks, 3))
         ELSE [S EXCEPT !.objs[id].texrep = <<FloatOf(toks[2]), FloatOf(toks[3])>>]

\* AcObj.read_texoff
read_texoff(S, id, toks) ==
    IF ErrFloat(toks, 2) # "none" THEN Raise(S, ErrFloat(toks, 2))
    ELSE IF ErrFloat(toks, 3) # "none" THEN Raise(S, ErrFloat(toks, 3))
         ELSE [S EXCEPT !.objs[id].texoff = <<FloatOf(toks[2]), FloatOf(toks[3])>>]

\* AcObj.read_subdiv
read_subdiv(S, id, toks) ==
    IF ErrInt(toks, 2) # "none" THEN Raise(S, ErrInt(toks, 2))
    ELSE [S EXCEPT !.objs[id].subdiv = IntOf(toks[2])]

\* AcObj.read_crease
read_crease(S, id, toks) ==
    IF ErrFloat(toks, 2) # "none" THEN Raise(S, ErrFloat(toks, 2))
    ELSE [S EXCEPT !.objs[id].crease = FloatOf(toks[2])]

\* AcObj.read_hierarchy_state
read_hierarchy_state(S, id, toks) ==
    IF Key(toks) = "hidden" /\ hide_hidden_objects = TRUE
    THEN [S EXCEPT !.objs[id].hidden = TRUE]
    ELSE S

\* AcObj.read_vertices up to its loop
read_vertices_call(S, id, toks) ==
    IF ErrInt(toks, 2) # "none" THEN Raise(S, ErrInt(toks, 2))
    ELSE IF IntOf(toks[2]) = 0 THEN S
         ELSE Push(S, Frame("verts", id, IntOf(toks[2])))

\* AcObj.read_surfaces up to its loop
read_surfaces_call(S, id, toks) ==
    IF ErrInt(toks, 2) # "none" THEN Raise(S, ErrInt(toks, 2))
    ELSE IF IntOf(toks[2]) = 0 THEN S
         ELSE Push(S, Frame("surfs", id, IntOf(toks[2])))

\* AcObj.read_children up to its loop (the global matrix is left out)
read_children_call(S, id, toks) ==
    IF ErrInt(toks, 2) # "none" THEN Raise(S, ErrInt(toks, 2))
    ELSE LET n == IntOf(toks[2])
             S1 == [S EXCEPT !.objs[id].kids = n]
         IN  IF n = 0 THEN FinishObj(S1) ELSE Push(S1, Frame("kids", id, n))

ObjTokens == {"numvert", "numsurf", "name", "data", "kids", "loc", "rot", "texture",
              "texrep", "texoff", "subdiv", "crease", "folded", "locked", "hidden",
              "url"}

\* self.tokens[toks[0]](ac_file, toks) of AcObj
ObjDispatch(S, id, toks) ==
    LET k == Key(toks) IN
    CASE k = "numvert" -> read_vertices_call(S, id, toks)
      [] k = "numsurf" -> read_surfaces_call(S, id, toks)
      [] k = "name"    -> read_name(S, id, toks)
      [] k = "data"    -> read_data(S, id, toks)
      [] k = "kids"    -> read_children_call(S, id, toks)
      [] k = "loc"     -> read_location(S, id, toks)
      [] k = "rot"     -> read_rotation(S, id, toks)
      [] k = "texture" -> read_texture(S, id, toks)
      [] k = "texrep"  -> read_texrep(S, id, toks)
      [] k = "texoff"  -> read_texoff(S, id, toks)
      [] k = "subdiv"  -> read_subdiv(S, id, toks)
      [] k = "crease"  -> read_crease(S, id, toks)
      [] k = "url"     -> read_url(S, id, toks)
      [] OTHER         -> read_hierarchy_state(S, id, toks)

\* one iteration of the loop of AcObj.read_ac_object
ObjStep(S0) ==
    LET S == readLine(S0)
        id == Top(S.stack).obj
        toks == Split(Strip(S.line))
    IN  IF S.none THEN FinishObj(S)
        ELSE IF Key(toks) \in ObjTokens THEN ObjDispatch(S, id, toks)
        ELSE FinishObj(S)

\* one iteration of the loop of AcObj.read_vertices
VertStep(S0) ==
    LET S == readLine(S0)
        f == Top(S.stack)
        toks == Split(Strip(S.line))
    IN  IF S.none THEN Raise(S, "AttributeError")
        ELSE IF Len(toks) > 2
        THEN IF ~AllFloat(toks) \/ Len(toks) > 4 THEN Raise(S, "ValueError")
             ELSE LET S1 == [S EXCEPT !.objs[f.obj].vert_list = Append(@, FloatsOf(toks))]
                  IN  IF f.n = 1 THEN [S1 EXCEPT !.stack = Pop(@)]
                      ELSE SetTop(S1, [f EXCEPT !.n = @ - 1])
        ELSE [S EXCEPT !.objs[f.obj].readPrevious = TRUE, !.stack = Pop(@)]

\* one iteration of the loop of AcObj.read_surfaces, up to the AcSurf
\* constructor's call of read_ac_surfaces
SurfsStep(S0) ==
    LET S == readLine(S0)
        f == Top(S.stack)
        toks == Split(Strip(S.line))
        g == [f EXCEPT !.n = @ - 1]
    IN  IF S.none THEN [S EXCEPT !.stack = Pop(@)]
        ELSE IF toks[1] = Tok("SURF")
        THEN IF Len(toks) < 2 THEN Raise(S, "IndexError")
             ELSE IF ~IsHex(toks[2]) THEN Raise(S, "ValueError")
             ELSE Push(SetTop(S, g),
                       [Frame("surf", f.obj, 0) EXCEPT
                            !.surf.flags = AcSurfFlags(toks[2])])
        ELSE IF g.n = 0 THEN [S EXCEPT !.stack = Pop(@)] ELSE SetTop(S, g)

\* one iteration of the loop of AcSurf.read_ac_surfaces
SurfStep(S0) ==
    LET S == readLine(S0)
        f == Top(S.stack)
        toks == Split(S.line)
        k == Key(toks)
    IN  IF S.none THEN FinishSurf(S)
        ELSE IF k = "mat"
        THEN IF ErrInt(toks, 2) # "none" THEN Raise(S, ErrInt(toks, 2))
             ELSE SetTop(S, [f EXCEPT !.surf.mat_index = IntOf(toks[2])])
        ELSE IF k = "refs"
        THEN IF ErrInt(toks, 2) # "none" THEN Raise(S, ErrInt(toks, 2))
             ELSE IF IntOf(toks[2]) = 0 THEN FinishSurf(S)
             ELSE SetTop(S, [f EXCEPT !.k = "refs", !.n = IntOf(toks[2])])
        ELSE FinishSurf(S)

RefsStep_mutant(S0) ==
    LET S == readLine(S0)
        f == Top(S.stack)
        toks == Split(Strip(S.line))
    IN  IF S.none THEN Raise(S, "AttributeError")
        ELSE IF ErrInt(toks, 1) # "none" THEN Raise(S, "ValueError")
        ELSE IF ~AllFloat(Slice(toks, 1, 3)) THEN Raise(S, "ValueError")
        ELSE LET g == [f EXCEPT !.n = @ - 1,
                                !.surf.refs = Append(@, IntOf(toks[1])),
                                !.surf.uv_refs = Append(@, FloatsOf(Slice(toks, 1, 3)))]
             IN  IF g.n = 0 THEN FinishSurf(readLine(SetTop(S, g))) ELSE SetTop(S, g)

\* one iteration of the loop of AcSurf.read_surf_refs
RefsStep(S0) ==
    LET S == readLine(S0)
        f == Top(S.stack)
        toks == Split(Strip(S.line))
    IN  IF S.none THEN Raise(S, "AttributeError")
        ELSE IF ErrInt(toks, 1) # "none" THEN Raise(S, "ValueError")
        ELSE IF ~AllFloat(Slice(toks, 1, 3)) THEN Raise(S, "ValueError")
        ELSE LET g == [f EXCEPT !.n = @ - 1,
                                !.surf.refs = Append(@, IntOf(toks[1])),
                                !.surf.uv_refs = Append(@, FloatsOf(Slice(toks, 1, 3)))]
             IN  IF g.n = 0 THEN FinishSurf(SetTop(S, g)) ELSE SetTop(S, g)

KidsStep_mutant(S0) ==
    LET S == readLine(S0)
        f == Top(S.stack)
        toks == Split(Strip(S.line))
    IN  IF S.none THEN KidsBreak(S)
        ELSE IF Len(toks) > 1
        THEN EnterObj(S, StripQuote(toks[2]), f.obj)
        ELSE KidsBreak([S EXCEPT !.objs[f.obj].readPrevious = TRUE])

\* one iteration of the loop of AcObj.read_children, up to the AcObj
\* constructor's call of read_ac_object
KidsStep(S0) ==
    LET S == readLine(S0)
        f == Top(S.stack)
        toks == Split(Strip(S.line))
    IN  IF S.none THEN KidsBreak(S)
        ELSE IF Len(toks) > 1
        THEN EnterObj(SetTop(S, [f EXCEPT !.n = @ - 1]), StripQuote(toks[2]), f.obj)
        ELSE KidsBreak([S EXCEPT !.objs[f.obj].readPrevious = TRUE])

\* AcMat.__init__ (import_ac3d.py)
AcMat(name, rgb, amb, emis, spec, shi, trans) ==
    [name |-> RemoveQuotes(IF name = <<>> THEN <<"Default">> ELSE name),
     rgb |-> rgb, amb |-> amb, emis |-> emis, spec |-> spec,
     shi |-> shi, trans |-> trans]

\* ImportAC3D.read_material
read_material(S, line) ==
    IF Len(line) < 2 THEN Raise(S, "IndexError")
    ELSE IF ~AllFloat(Slice(line, 3, 6)) \/ ~AllFloat(Slice(line, 7, 10))
            \/ ~AllFloat(Slice(line, 11, 14)) \/ ~AllFloat(Slice(line, 15, 18))
    THEN Raise(S, "ValueError")
    ELSE IF ErrFloat(line, 20) # "none" THEN Raise(S, ErrFloat(line, 20))
    ELSE IF ErrFloat(line, 22) # "none" THEN Raise(S, ErrFloat(line, 22))
    ELSE [S EXCEPT !.matlist = Append(@,
            AcMat(line[2], FloatsOf(Slice(line, 3, 6)), FloatsOf(Slice(line, 7, 10)),
                  FloatsOf(Slice(line, 11, 14)), FloatsOf(Slice(line, 15, 18)),
                  FloatOf(line[20]), FloatOf(line[22])))]

\* ImportAC3D.read_mat_line
read_mat_line(S) ==
    LET S1 == readLine(S) IN
    IF S1.none THEN Report(S1, "ERROR", "unexpected end of file in materials")
    ELSE S1

\* One field of a MAT block: the line is read, a wrong keyword or length is
\* reported (the report is kept as the keyword) and the values are converted
\* all the same.  many tells a
\* triple (line[1:4]) from a single value (line[1]).
MatField(S, key, many) ==
    LET S1 == read_mat_line(S)
        line == Split(S1.line)
        S2 == IF line[1] # Tok(key) \/ Len(line) # (IF many THEN 4 ELSE 2)
              THEN Report(S1, "ERROR", key)
              ELSE S1
    IN  IF S1.none THEN Raise(S1, "TypeError")
        ELSE IF many
        THEN IF ~AllFloat(Slice(line, 1, 4)) THEN Raise(S2, "ValueError") ELSE S2
        ELSE IF ErrFloat(line, 2) # "none" THEN Raise(S2, ErrFloat(line, 2)) ELSE S2

MatTriple(S) == FloatsOf(Slice(Split(S.line), 1, 4))
MatValue(S) == FloatOf(Split(S.line)[2])

RECURSIVE SkipMatData(_)
SkipMatData(S) ==
    IF ~S.none /\ Split(S.line)[1] # Tok("ENDMAT") THEN SkipMatData(read_mat_line(S))
    ELSE S

MatKeys ==
    << [key |-> "rgb", many |-> TRUE], [key |-> "amb", many |-> TRUE],
       [key |-> "emis", many |-> TRUE], [key |-> "spec", many |-> TRUE],
       [key |-> "shi", many |-> FALSE], [key |-> "trans", many |-> FALSE] >>

\* the fields of a MAT block in their order: r.S is the reader, r.vals the
\* values read so far; an exception ends it
RECURSIVE MatFields(_, _)
MatFieldRead(S1, keys, vals) ==
    IF S1.exc # "none" THEN [S |-> S1, vals |-> vals]
    ELSE MatFields([S |-> S1,
                    vals |-> Append(vals, IF Head(keys).many THEN MatTriple(S1)
                                          ELSE MatValue(S1))],
                   Tail(keys))

MatFields(r, keys) ==
    IF keys = <<>> THEN r
    ELSE MatFieldRead(MatField(r.S, Head(keys).key, Head(keys).many), keys, r.vals)

\* the end of a MAT block: the check of the ENDMAT line and the new material
MatEnd(H, name, vals) ==
    IF H.none THEN Raise(H, "TypeError")
    ELSE [(IF Split(H.line)[1] # Tok("ENDMAT") \/ Len(Split(H.line)) # 1
           THEN Report(H, "ERROR", "invalid material ENDMAT") ELSE H)
          EXCEPT !.matlist = Append(@,
              AcMat(name, vals[1], vals[2], vals[3], vals[4], vals[5], vals[6]))]

\* the line after the fields of a MAT block: data lines are skipped
MatData(G, name, vals) ==
    IF G.none THEN Raise(G, "TypeError")
    ELSE MatEnd(IF Split(G.line)[1] = Tok("data") THEN SkipMatData(read_mat_line(G))
                ELSE G,
                name, vals)

MatBody(r, name) ==
    IF r.S.exc # "none" THEN r.S ELSE MatData(read_mat_line(r.S), name, r.vals)

\* ImportAC3D.read_multiline_material
read_multiline_material(S, line) ==
    IF Len(line) < 2
    THEN Raise(Report(S, "ERROR", "invalid material name"), "IndexError")
    ELSE MatBody(MatFields([S |-> IF Len(line) # 2
                                  THEN Report(S, "ERROR", "invalid material name")
                                  ELSE S,
                            vals |-> <<>>],
                           MatKeys),
                 line[2])

\* ImportAC3D.read_object up to the AcObj constructor's call of read_ac_object
read_object(S, line) ==
    IF Len(line) < 2 THEN Raise(S, "IndexError")
    ELSE EnterObj(S, line[2], 0)

\* one iteration of the loop of ImportAC3D.read_ac_file
FileStep(S0) ==
    LET S == readLine(S0)
        line == Split(Strip(S.line))
        k == Key(line)
    IN  IF S.none THEN [S EXCEPT !.eof = TRUE]
        ELSE CASE k = "MATERIAL" -> read_material(S, line)
               [] k = "MAT"      -> read_multiline_material(S, line)
               [] k = "OBJECT"   -> read_object(S, line)
               [] OTHER          -> Report(S, "ERROR", "invalid token")

(***************************************************************************)
(* The read phase is over when read_ac_file returns: ImportAC3D.__init__   *)
(* closes the file and goes on to create_blender_data.  An exception of a  *)
(* handler reaches the except clause of read_ac_file, "except Error(e)",   *)
(* whose expression names neither a defined class nor a bound variable:    *)
(* evaluating it raises NameError, which leaves read_ac_file and           *)
(* ImportAC3D.__init__ at once.                                            *)
(***************************************************************************)
VARIABLE cause      \* the exception the handler raised, or "none"

\* a surface on its own: the arguments, the AcSurf made of them and what
\* get_edges and get_faces return for it
VARIABLES su_in, su, su_out, su_pc

\* the exporters: which of the two runs, the Blender scene, the tree of
\* objects and the material table it builds, the objects yet to parse
VARIABLES exporter, scene, ex_objs, ex_mats, ex_todo, ex_pc

\* operations looked at on their own: the Poly whose crease angle
\* Poly._parseMesh resolves, the call of AcMat.get_blender_image, the
\* Objects that addChild is called on
VARIABLES poly, tex, tree

call_vars == <<poly, tex, tree>>

surf_vars == <<su_in, su, su_out, su_pc>>

export_vars == <<exporter, scene, ex_objs, ex_mats, ex_todo, ex_pc>>

Commit(S) ==
    /\ pos' = S.pos
    /\ lastline' = S.lastline
    /\ readPrevious' = S.readPrevious
    /\ line_num' = S.line_num
    /\ stack' = S.stack
    /\ objs' = S.objs
    /\ oblist' = S.oblist
    /\ matlist' = S.matlist
    /\ reports' = S.reports
    /\ cause' = S.exc
    /\ exc' = IF S.exc # "none" THEN "NameError" ELSE "none"
    /\ pc' = IF S.exc # "none" THEN "crashed"
             ELSE IF S.eof THEN (IF S.oblist = <<>> THEN "done" ELSE "create")
             ELSE "read"
    /\ file_state' = IF S.exc = "none" /\ S.eof THEN "closed" ELSE file_state
    /\ todo' = IF S.exc = "none" /\ S.eof THEN S.oblist ELSE todo
    /\ UNCHANGED <<call_vars, ac_file, header, surf_vars, export_vars>>

Reading(k) == pc = "read" /\ stack # <<>> /\ Top(stack).k = k

read_ac_file == pc = "read" /\ stack = <<>> /\ Commit(FileStep(Cur))

read_ac_object == Reading("obj") /\ Commit(ObjStep(Cur))

read_vertices == Reading("verts") /\ Commit(VertStep(Cur))

read_surfaces == Reading("surfs") /\ Commit(SurfsStep(Cur))

read_ac_surfaces == Reading("surf") /\ Commit(SurfStep(Cur))

read_surf_refs == Reading("refs") /\ Commit(RefsStep(Cur))

read_children == Reading("kids") /\ Commit(KidsStep(Cur))

AC3D_magic == <<"A", "C", "3", "D">>

HeaderError_mutant(h) ==
    IF Len(h) < 5 THEN "Invalid file header length"
    ELSE IF SubSeq(h, 1, 4) # AC3D_magic THEN "Invalid file header"
    ELSE IF h[5] \notin {"b", "c"} THEN "Unsupported AC3D version"
    ELSE ""

\* the header checks of ImportAC3D.__init__: the error reported, "" for none
HeaderError(h) ==
    IF Len(h) # 5 THEN "Invalid file header length"
    ELSE IF SubSeq(h, 1, 4) # AC3D_magic THEN "Invalid file header"
    ELSE IF h[5] \notin {"b", "c"} THEN "Unsupported AC3D version"
    ELSE ""

\* ImportAC3D.__init__ up to its call of read_ac_file

ImportAC3D_init ==
    /\ pc = "header"
    /\ LET eof == Len(ac_file) = 0
           h == IF eof THEN <<>> ELSE Strip(ac_file[1])
           bad == HeaderError(h)
           info == [level |-> "INFO", msg |-> "Attempting import"]
       IN  /\ header' = h
           /\ pos' = IF eof THEN 0 ELSE 1
           /\ reports' = IF bad = "" THEN <<info>>
                         ELSE <<info, [level |-> "ERROR", msg |-> bad]>>
           /\ file_state' = IF bad = "" THEN "open" ELSE "closed"
           /\ pc' = IF bad = "" THEN "read" ELSE "rejected"
    /\ UNCHANGED <<call_vars, ac_file, matlist, oblist, objs, stack, lastline, readPrevious,
                   line_num, todo, exc, cause, surf_vars, export_vars>>

(***************************************************************************)
(* create_blender_data: create_blender_object for every object of oblist,  *)
(* each followed by its children.  Of the Blender side only what the       *)
(* importer computes itself is kept: the edge, face and material index     *)
(* lists handed to the mesh and the two-sided flag.                        *)
(***************************************************************************)
\* AcSurf.get_faces
get_faces(surf) ==
    IF surf.flags.type = 0 /\ Len(surf.refs) > 2 THEN surf.refs ELSE <<>>

get_edges_mutant(surf) ==
    LET r == surf.refs
        n == Len(r)
    IN  IF surf.flags.type # 0
        THEN IF n = 1 THEN << r \o r >>
             ELSE [i \in 1..(n - 1) |-> <<r[i], r[i + 1]>>]
                  \o (IF surf.flags.type = 1 /\ n > 1 THEN << <<r[n], r[1]>> >> ELSE <<>>)
        ELSE <<>>

get_edges_open(surf) ==
    LET r == surf.refs
        n == Len(r)
    IN  IF surf.flags.type # 0
        THEN IF n = 1 THEN << r \o r >>
             ELSE [i \in 1..(n - 1) |-> <<r[i], r[i + 1]>>]
        ELSE <<>>

\* AcSurf.get_edges
get_edges(surf) ==
    LET r == surf.refs
        n == Len(r)
    IN  IF surf.flags.type # 0
        THEN IF n = 1 THEN << r \o r >>
             ELSE [i \in 1..(n - 1) |-> <<r[i], r[i + 1]>>]
                  \o (IF surf.flags.type = 1 /\ n > 2 THEN << <<r[n], r[1]>> >> ELSE <<>>)
        ELSE <<>>

\* position of x in the sequence s, counted from 0 (x is in s)
IndexOf(s, x) == (CHOOSE i \in 1..Len(s) : s[i] = x) - 1

InSeq(s, x) == \E i \in 1..Len(s) : s[i] = x

\* The loop over surf_list in create_blender_object; acc holds the lists of
\* the object, the materials of its mesh (by index into ac_matlist) and the
\* locals two_sided_lighting and has_uv.
RECURSIVE CreateSurfs(_, _, _)
CreateSurfs(surfs, acc, nmat) ==
    IF surfs = <<>> \/ acc.exc # "none" THEN acc
    ELSE LET surf == Head(surfs)
             a1 == [acc EXCEPT !.edge_list = @ \o get_edges(surf)]
             a2 == [a1 EXCEPT !.two_sided = @ \/ surf.flags.two_sided,
                              !.has_uv = @ \/ (Len(surf.uv_refs) > 0),
                              !.face_list = Append(@, get_faces(surf)),
                              !.surf_face_list = Append(@, surf)]
             known == InSeq(a2.materials, surf.mat_index)
             a3 == [a2 EXCEPT
                      !.materials = IF known THEN @ ELSE Append(@, surf.mat_index),
                      !.face_mat_list = Append(@,
                          IF known THEN IndexOf(a2.materials, surf.mat_index)
                          ELSE Len(a2.materials))]
         IN  CreateSurfs(Tail(surfs),
                 IF surf.flags.type # 0 \/ Len(surf.refs) < 3 THEN a1
                 ELSE IF surf.mat_index >= nmat THEN [a2 EXCEPT !.exc = "IndexError"]
                 ELSE a3,
                 nmat)

ac_name == <<"scene.ac">>

HasBlenderObject(typ) == typ \in {Tok("group"), Tok("poly"), Tok("light")}

\* AcObj.create_blender_object, up to its calls for the children
create_blender_object ==
    /\ pc = "create"
    /\ todo # <<>>
    /\ LET id == Head(todo)
           o == objs[id]
           typ == Lower(o.type)
           o1 == IF typ = Tok("world") THEN [o EXCEPT !.name = ac_name] ELSE o
           acc0 == [edge_list |-> o.edge_list, face_list |-> o.face_list,
                    surf_face_list |-> o.surf_face_list,
                    face_mat_list |-> o.face_mat_list, materials |-> <<>>,
                    two_sided |-> FALSE, has_uv |-> FALSE, exc |-> "none"]
           mesh == o.vert_list # <<>> /\ typ = Tok("poly")
           acc == IF mesh THEN CreateSurfs(o.surf_list, acc0, Len(matlist)) ELSE acc0
           o2 == [o1 EXCEPT !.edge_list = acc.edge_list, !.face_list = acc.face_list,
                            !.surf_face_list = acc.surf_face_list,
                            !.face_mat_list = acc.face_mat_list,
                            !.show_double_sided = mesh /\ acc.exc = "none" /\ acc.two_sided,
                            !.created = acc.exc = "none"]
           rest == o.children \o Tail(todo)
       IN  IF o.ac_parent # 0 /\ ~HasBlenderObject(typ)
           THEN /\ objs' = [objs EXCEPT ![id] = o1]
                /\ exc' = "AttributeError" /\ cause' = "AttributeError"
                /\ pc' = "crashed" /\ todo' = todo
           ELSE /\ objs' = [objs EXCEPT ![id] = o2]
                /\ exc' = acc.exc /\ cause' = acc.exc
                /\ pc' = IF acc.exc # "none" THEN "crashed"
                         ELSE IF rest = <<>> THEN "done" ELSE "create"
                /\ todo' = IF acc.exc # "none" THEN todo ELSE rest
    /\ UNCHANGED <<call_vars, ac_file, pos, file_state, header, reports, matlist, oblist, stack,
                   lastline, readPrevious, line_num, surf_vars, export_vars>>

(***************************************************************************)
(* Input files.  A well-formed body is the rendering of a tree of objects  *)
(* in the grammar of the format: the root a world, inner objects groups,   *)
(* leaves polys, every object closed by its kids line.  The other inputs   *)
(* are such files with one line dropped or with the tail cut off.          *)
(***************************************************************************)
MaxNodes == 4       \* objects in an input tree

\* the line made of the given atoms, single blanks between them
Words(ws) == Join([i \in 1..Len(ws) |-> <<ws[i]>>])

Quoted(s) == <<QT>> \o s \o <<QT>>

RECURSIVE Flatten(_)
Flatten(ss) == IF ss = <<>> THEN <<>> ELSE Head(ss) \o Flatten(Tail(ss))

\* The forests of n nodes; a tree is the forest of its children.
RECURSIVE Forests(_)
Forests(n) ==
    IF n = 0 THEN {<<>>}
    ELSE UNION { { <<t>> \o rest : t \in Forests(k - 1), rest \in Forests(n - k) }
                 : k \in 1..n }

Trees == UNION { Forests(n - 1) : n \in 1..MaxNodes }

MaterialLine(name) ==
    <<"MATERIAL", SP>> \o Quoted(name) \o <<SP>>
    \o Words(<<"rgb", "1", "1", "1">>) \o <<SP, SP>>
    \o Words(<<"amb", "0.2", "0.2", "0.2">>) \o <<SP, SP>>
    \o Words(<<"emis", "0", "0", "0">>) \o <<SP, SP>>
    \o Words(<<"spec", "0.5", "0.5", "0.5">>) \o <<SP, SP>>
    \o Words(<<"shi", "10", "trans", "0">>)

MatBlock(name) ==
    << <<"MAT", SP>> \o Quoted(name), Words(<<"rgb", "1", "1", "1">>),
       Words(<<"amb", "0.2", "0.2", "0.2">>), Words(<<"emis", "0", "0", "0">>),
       Words(<<"spec", "0.5", "0.5", "0.5">>), Words(<<"shi", "10">>),
       Words(<<"trans", "0">>), Words(<<"data", "3">>), Words(<<"a", "b">>),
       Words(<<"ENDMAT">>) >>

\* a SURF block: flags, an optional mat line (mat < 0: none), the refs
SurfBlock(flags, mat, refs) ==
    << <<"SURF", SP>> \o flags >>
    \o (IF mat < 0 THEN <<>> ELSE << Words(<<"mat", Digits[mat + 1]>>) >>)
    \o << Words(<<"refs", Digits[Len(refs) + 1]>>) >>
    \o [i \in 1..Len(refs) |->
          Words(<<Digits[refs[i] + 1], Digits[(i % 2) + 1], Digits[((i \div 2) % 2) + 1]>>)]

Triangle ==
    << Words(<<"numvert", "3">>), Words(<<"0", "0", "0">>), Words(<<"1", "0", "0">>),
       Words(<<"0", "1", "0">>) >>

\* the field lines of a poly, by kind of content
PolyFields(v) ==
    CASE v = "bare"  -> <<>>
      [] v = "tri"   -> << <<"name", SP>> \o Quoted(<<"Box">>) >> \o Triangle
                        \o << Words(<<"numsurf", "1">>) >>
                        \o SurfBlock(<<"0x", "0">>, 0, <<0, 1, 2>>)
      [] v = "lines" -> Triangle \o << Words(<<"numsurf", "3">>) >>
                        \o SurfBlock(<<"0x", "3", "0">>, -1, <<2, 1, 0>>)
                        \o SurfBlock(<<"0x", "1">>, 0, <<0, 1>>)
                        \o SurfBlock(<<"0X", "2", "2">>, 0, <<0, 1, 2>>)
      [] v = "data"  -> << <<"name", SP>> \o Quoted(<<"my", SP, "box">>),
                           Words(<<"data", "3">>), Words(<<"a", "b">>),
                           <<"texture", SP>> \o Quoted(<<"t.png">>),
                           Words(<<"texrep", "1", "1">>),
                           Words(<<"loc", "0", "1", "0">>),
                           Words(<<"crease", "0.5">>),
                           Words(<<"hidden">>) >>
      [] v = "index" -> Triangle \o << Words(<<"numsurf", "2">>) >>
                        \o SurfBlock(<<"0x", "0">>, 0, <<1, 2, 3>>)
                        \o SurfBlock(<<"0x", "2", "0">>, 0, <<0, 1, 2>>)
      [] v = "degen" -> Triangle \o << Words(<<"numsurf", "2">>) >>
                        \o SurfBlock(<<"0x", "0">>, 0, <<0, 1>>)
                        \o SurfBlock(<<"0x", "1", "0">>, 1, <<0, 1, 2>>)

Contents == {"bare", "tri", "lines", "data", "index", "degen"}

RECURSIVE RenderObject(_, _, _)
RenderObject(t, root, v) ==
    << Words(<<"OBJECT", IF root THEN "world" ELSE IF t = <<>> THEN "poly" ELSE "group">>) >>
    \o (IF ~root /\ t = <<>> THEN PolyFields(v) ELSE <<>>)
    \o << Words(<<"kids", Digits[Len(t) + 1]>>) >>
    \o Flatten([i \in 1..Len(t) |-> RenderObject(t[i], FALSE, v)])

HeaderLine(ver) == AC3D_magic \o <<ver>>

DefaultWhite == <<"DefaultWhite">>

Body(t, v, style) ==
    (IF style = "MAT" THEN MatBlock(DefaultWhite) ELSE << MaterialLine(DefaultWhite) >>)
    \o RenderObject(t, TRUE, v)

\* a whitespace-only line before every second line
WithBlanks(f) ==
    Flatten([i \in 1..Len(f) |-> IF i % 2 = 0 THEN << <<SP>>, f[i] >> ELSE << f[i] >>])

\* the well-formed files of the given trees: every kind of content, both
\* kinds of material, with and without whitespace-only lines
FilesOf(trees) ==
    { <<HeaderLine("b")>> \o Body(t, v, "MATERIAL") : t \in trees, v \in Contents }
    \cup { <<HeaderLine("c")>> \o Body(t, "tri", "MAT") : t \in trees }
    \cup { WithBlanks(<<HeaderLine("b")>> \o Body(t, "tri", "MATERIAL")) : t \in trees }

WellFormedFiles == FilesOf(Trees)

\* the files that are damaged: those of the trees below the largest size
Damageable == FilesOf(UNION { Forests(n - 1) : n \in 1..(MaxNodes - 1) })

DropLine(f, i) == SubSeq(f, 1, i - 1) \o SubSeq(f, i + 1, Len(f))

\* one line, not the header, dropped
Dropped == UNION { { DropLine(f, i) : i \in 2..Len(f) } : f \in Damageable }

\* cut off after the header or later
Truncated == UNION { { SubSeq(f, 1, i) : i \in 1..(Len(f) - 1) } : f \in Damageable }

\* the input of the concrete scenario, with the given first line
Scenario(first) ==
    << first, MaterialLine(DefaultWhite), Words(<<"OBJECT", "world">>),
       Words(<<"kids", "1">>), Words(<<"OBJECT", "poly">>),
       <<"name", SP>> \o Quoted(<<"Box">>) >>
    \o Triangle
    \o << Words(<<"numsurf", "1">>), <<"SURF", SP, "0x", "0">>, Words(<<"mat", "0">>),
          Words(<<"refs", "3">>), Words(<<"0", "0", "0">>), Words(<<"1", "1", "0">>),
          Words(<<"2", "0", "1">>), Words(<<"kids", "0">>) >>

FirstLines ==
    { HeaderLine("b"), HeaderLine("c"), HeaderLine("a"), AC3D_magic,
      AC3D_magic \o <<SP, "b">>, <<"X", "C", "3", "D", "b">>,
      <<SP>> \o HeaderLine("b") \o <<SP>>, HeaderLine("b") \o <<"c">>, <<>> }

\* a world whose kids line is followed by an OBJECT line without a type
ShortKidFile ==
    << HeaderLine("b"), MaterialLine(DefaultWhite), Words(<<"OBJECT", "world">>),
       Words(<<"kids", "1">>), Words(<<"OBJECT">>), Words(<<"OBJECT", "poly">>),
       Words(<<"kids", "0">>) >>

\* a poly with one polygon of five refs
NgonFile ==
    << HeaderLine("b"), MaterialLine(DefaultWhite), Words(<<"OBJECT", "world">>),
       Words(<<"kids", "1">>), Words(<<"OBJECT", "poly">>),
       Words(<<"numvert", "5">>), Words(<<"0", "0", "0">>), Words(<<"2", "0", "0">>),
       Words(<<"3", "2", "0">>), Words(<<"1", "3", "0">>), Words(<<"0", "2", "0">>),
       Words(<<"numsurf", "1">>) >>
    \o SurfBlock(<<"0x", "0">>, 0, <<0, 1, 2, 3, 4>>)
    \o << Words(<<"kids", "0">>) >>

\* a poly with a one-sided polygon and a two-sided line
TwoSidedLineFile ==
    << HeaderLine("b"), MaterialLine(DefaultWhite), Words(<<"OBJECT", "world">>),
       Words(<<"kids", "1">>), Words(<<"OBJECT", "poly">>) >>
    \o Triangle
    \o << Words(<<"numsurf", "2">>) >>
    \o SurfBlock(<<"0x", "0">>, 0, <<0, 1, 2>>)
    \o SurfBlock(<<"0X", "2", "2">>, 0, <<0, 1>>)
    \o << Words(<<"kids", "0">>) >>

Irregular == { ShortKidFile, NgonFile, TwoSidedLineFile }

Files ==
    WellFormedFiles \cup Dropped \cup Truncated \cup Irregular
    \cup { Scenario(h) : h \in FirstLines } \cup { <<>> }

\* no operation is looked at on its own
NoCall == poly = <<>> /\ tex = <<>> /\ tree = <<>>

\* no surface is decoded on its own, no exporter runs
NoSurfaceCall == su_in = <<>> /\ su = NoSurf /\ su_out = <<>> /\ su_pc = "idle"

NoExport ==
    /\ exporter = "none" /\ scene = <<>> /\ ex_objs = <<>> /\ ex_mats = <<>>
    /\ ex_todo = <<>> /\ ex_pc = "idle"

InitImport ==
    /\ ac_file \in Files
    /\ pos = 0
    /\ file_state = "unopened"
    /\ header = <<>>
    /\ reports = <<>>
    /\ matlist = <<>>
    /\ oblist = <<>>
    /\ objs = <<>>
    /\ stack = <<>>
    /\ lastline = <<>>
    /\ readPrevious = FALSE
    /\ line_num = 0
    /\ todo = <<>>
    /\ pc = "header"
    /\ exc = "none"
    /\ cause = "none"
    /\ NoSurfaceCall
    /\ NoExport
    /\ NoCall

vars == <<ac_file, pos, file_state, header, reports, matlist, oblist, objs, stack,
          lastline, readPrevious, line_num, todo, pc, exc, cause,
          su_in, su, su_out, su_pc,
          exporter, scene, ex_objs, ex_mats, ex_todo, ex_pc, poly, tex, tree>>

NextImport ==
    \/ ImportAC3D_init
    \/ read_ac_file
    \/ read_ac_object
    \/ read_vertices
    \/ read_surfaces
    \/ read_ac_surfaces
    \/ read_surf_refs
    \/ read_children
    \/ create_blender_object

SpecImport == InitImport /\ [][NextImport]_vars

(***************************************************************************)
(* Properties of the importer.                                             *)
(***************************************************************************)
\* read_ac_file has returned and the file has been closed
ReadDone == pc \in {"create", "done"} \/ (pc = "crashed" /\ file_state = "closed")

Reported(level) == \E i \in 1..Len(reports) : reports[i].level = level

IsObjectLine(line) == Key(Split(Strip(line))) = "OBJECT"

ObjectLines == { i \in 1..Len(ac_file) : IsObjectLine(ac_file[i]) }

Increasing(s) == \A i \in 1..(Len(s) - 1) : s[i] < s[i + 1]

\* C1: for a well-formed input (every OBJECT block closed by its own kids N
\* line, N complete blocks after it) the reader gives every object exactly
\* the N children its kids line declares, in file order, at every depth: one
\* object per OBJECT line, one root, and under every object the objects of
\* the next N blocks of its level.
C1_KidsEqualChildren ==
    (ac_file \in WellFormedFiles /\ ReadDone) =>
        /\ Len(oblist) = 1
        /\ { objs[i].at : i \in 1..Len(objs) } = ObjectLines
        /\ Increasing([i \in 1..Len(objs) |-> objs[i].at])
        /\ \A i \in 1..Len(objs) :
              /\ objs[i].kids = Len(objs[i].children)
              /\ Increasing(objs[i].children)
              /\ \A j \in 1..Len(objs[i].children) :
                    /\ objs[i].children[j] > i
                    /\ objs[objs[i].children[j]].ac_parent = i
        /\ \A i \in 2..Len(objs) : InSeq(objs[objs[i].ac_parent].children, i)

\* a well-formed input read to its end, with an object of two children and
\* an object two levels below the root
C1_Witness ==
    /\ ac_file \in WellFormedFiles
    /\ pc = "done"
    /\ \E i \in 1..Len(objs) : objs[i].kids = 2 /\ Len(objs[i].children) = 2
    /\ \E i \in 1..Len(objs) :
          objs[i].ac_parent # 0 /\ objs[objs[i].ac_parent].ac_parent # 0

\* C2: a kids line that declares more children than the input holds ends in
\* a reported error: the import never finishes with an object that has fewer
\* children than declared (its loop over the children left at end of input,
\* not by a short line, which sets the object's readPrevious) and no error.
C2_InflatedKidsIsFatal ==
    pc \in {"create", "done"} =>
        \A i \in 1..Len(objs) :
            (objs[i].kids > Len(objs[i].children) /\ ~objs[i].readPrevious)
                => Reported("ERROR")

FirstLine == IF ac_file = <<>> THEN <<>> ELSE ac_file[1]

\* C3: a file is accepted only when its first line, stripped, is AC3D and
\* the version tag b or c; for every other first line an error is reported,
\* the file is closed, no line after the first is read and the material and
\* object lists stay empty.
C3_HeaderGate ==
    pc # "header" =>
        /\ pc = "rejected" <=> Strip(FirstLine) \notin {HeaderLine("b"), HeaderLine("c")}
        /\ pc = "rejected" =>
              /\ Reported("ERROR")
              /\ file_state = "closed"
              /\ pos <= 1 /\ line_num = 0
              /\ matlist = <<>> /\ oblist = <<>> /\ objs = <<>>

\* a first line with another version tag, more lines after it, rejected
C3_Witness ==
    /\ pc = "rejected"
    /\ FirstLine = HeaderLine("a")
    /\ Len(ac_file) > 1

\* the document the concrete scenario describes
ScenarioDocument ==
    /\ Len(matlist) = 1
    /\ matlist[1].name = DefaultWhite
    /\ Len(oblist) = 1
    /\ Len(objs) = 2
    /\ objs[1].type = Tok("world")
    /\ objs[1].children = <<2>>
    /\ objs[2].type = Tok("poly")
    /\ objs[2].name = <<"Box">>
    /\ objs[2].children = <<>>
    /\ Len(objs[2].vert_list) = 3
    /\ Len(objs[2].surf_list) = 1
    /\ objs[2].surf_list[1].flags = [type |-> 0, shaded |-> FALSE, two_sided |-> FALSE]
    /\ objs[2].surf_list[1].mat_index = 0
    /\ objs[2].surf_list[1].refs = <<0, 1, 2>>
    /\ objs[2].surf_list[1].uv_refs = << <<0, 0>>, <<100000, 0>>, <<0, 100000>> >>

SpecFirstLine == AC3D_magic \o <<SP, "b">>

\* the input of the scenario as the spec writes it and with the header AC3Db
ScenarioAsWritten == Scenario(SpecFirstLine)
ScenarioAC3Db == Scenario(HeaderLine("b"))

\* C4 as stated: the literal input of the scenario, whose first line is
\* "AC3D b", is accepted and yields the document of the scenario.
C4_ScenarioAsStated ==
    (ac_file = ScenarioAsWritten /\ pc # "header") =>
        /\ pc \notin {"rejected", "crashed"}
        /\ ReadDone => ScenarioDocument

\* C4, amended: with the first line AC3Db the input of the scenario is
\* accepted, read without an error and yields the document of the scenario;
\* with the first line "AC3D b" it is rejected for its header length.
C4_ScenarioAmended ==
    /\ (ac_file = ScenarioAC3Db /\ pc # "header") =>
          /\ pc \notin {"rejected", "crashed"}
          /\ ~Reported("ERROR")
          /\ ReadDone => ScenarioDocument
    /\ (ac_file = ScenarioAsWritten /\ pc # "header") =>
          /\ pc = "rejected"
          /\ reports[Len(reports)].msg = "Invalid file header length"

C4_Witness == ac_file = ScenarioAC3Db /\ pc = "done"

\* C8: every vertex index of every face of an object's face_list is below
\* the number of its vertices (a face with an index out of range is dropped).
C8_FaceIndicesInRange ==
    \A i \in 1..Len(objs) :
        \A j \in 1..Len(objs[i].face_list) :
            \A k \in 1..Len(objs[i].face_list[j]) :
                objs[i].face_list[j][k] < Len(objs[i].vert_list)

(***************************************************************************)
(* A surface on its own: AcSurf made of a flags token and a list of refs,  *)
(* then asked for its edges and its faces.                                 *)
(***************************************************************************)
MaxRefs == 4        \* refs of a surface

RefIndices == {0, 1, 2}

RefLists == UNION { [1..n -> RefIndices] : n \in 0..MaxRefs }

\* the spellings of a flags value: '{0:#X}' as the exporters write it, lower
\* case with 0x and two digits, and the bare digits
HexForms(f) ==
    { HexStr(f),
      <<"0x", HexLower[(f \div 16) + 1], HexLower[(f % 16) + 1]>>,
      Tail(HexStr(f)) }

FlagsOfInterest == {0, 1, 2, 4, 17, 34, 48}

\* every flags value with three refs, and the flags of interest with every
\* list of refs; f is the value the token flags spells
SurfCalls ==
    UNION { { [f |-> f, flags |-> t, refs |-> r] :
                  t \in HexForms(f),
                  r \in IF f \in FlagsOfInterest THEN RefLists ELSE { <<0, 1, 2>> } }
            : f \in 0..255 }

\* AcSurf.__init__ with the refs that read_surf_refs stores
AcSurf_init ==
    /\ su_pc = "new"
    /\ su' = [flags |-> AcSurfFlags(su_in.flags), mat_index |-> 0,
              refs |-> su_in.refs, uv_refs |-> [i \in 1..Len(su_in.refs) |-> <<0, 0>>]]
    /\ su_pc' = "made"
    /\ UNCHANGED <<call_vars, su_in, su_out, import_vars, cause, export_vars>>

AcSurf_get_edges ==
    /\ su_pc = "made"
    /\ su_out' = [edges |-> get_edges(su)]
    /\ su_pc' = "edges"
    /\ UNCHANGED <<call_vars, su_in, su, import_vars, cause, export_vars>>

AcSurf_get_faces ==
    /\ su_pc = "edges"
    /\ su_out' = [edges |-> su_out.edges, faces |-> get_faces(su)]
    /\ su_pc' = "done"
    /\ UNCHANGED <<call_vars, su_in, su, import_vars, cause, export_vars>>

NoImport ==
    /\ ac_file = <<>> /\ pos = 0 /\ file_state = "unopened" /\ header = <<>>
    /\ reports = <<>> /\ matlist = <<>> /\ oblist = <<>> /\ objs = <<>>
    /\ stack = <<>> /\ lastline = <<>> /\ readPrevious = FALSE /\ line_num = 0
    /\ todo = <<>> /\ pc = "idle" /\ exc = "none" /\ cause = "none"

InitSurf ==
    /\ su_in \in SurfCalls
    /\ su = NoSurf
    /\ su_out = <<>>
    /\ su_pc = "new"
    /\ NoImport
    /\ NoExport
    /\ NoCall

NextSurf == AcSurf_init \/ AcSurf_get_edges \/ AcSurf_get_faces

SpecSurf == InitSurf /\ [][NextSurf]_vars

\* C5: for every flags value f of 0x00..0xFF, in any hex spelling, the
\* decoded type is f & 0xF, shaded is the bit 0x10 and two_sided the bit
\* 0x20; 0x0 is a flat one-sided polygon, 0x30 a shaded two-sided polygon.
C5_FlagsDecode ==
    su_pc \in {"made", "edges", "done"} =>
        /\ su.flags.type = su_in.f % 16
        /\ su.flags.shaded = ((su_in.f % 32) >= 16)
        /\ su.flags.two_sided = ((su_in.f % 64) >= 32)
        /\ su_in.f = 0 =>
              su.flags = [type |-> 0, shaded |-> FALSE, two_sided |-> FALSE]
        /\ su_in.f = 48 =>
              su.flags = [type |-> 0, shaded |-> TRUE, two_sided |-> TRUE]

C5_Witness ==
    /\ su_pc = "made"
    /\ su_in.flags = <<"0X", "3", "0">>
    /\ su.flags = [type |-> 0, shaded |-> TRUE, two_sided |-> TRUE]

\* C6 as stated: a closed line (SURF 0x1) of exactly 2 refs yields exactly 2
\* edges.
C6_ClosedLineTwoEdges ==
    (su_pc = "done" /\ su_in.f = 1 /\ Len(su.refs) = 2) => Len(su_out.edges) = 2

\* C6, amended: a closed line (SURF 0x1) of exactly 2 refs [a, b] yields
\* exactly 1 edge, [a, b]; the closing edge is added from 3 refs on.
C6_ClosedLineOneEdge ==
    (su_pc \in {"edges", "done"} /\ su.flags.type = 1 /\ Len(su.refs) = 2) =>
        su_out.edges = << <<su.refs[1], su.refs[2]>> >>

C6_Witness ==
    /\ su_pc = "done"
    /\ su_in.f = 1
    /\ su.refs = <<0, 1>>
    /\ su_out.edges = << <<0, 1>> >>

\* C7: get_edges of a surface that is no polygon returns, for 1 ref, the one
\* self-edge [r0, r0]; for n >= 2 refs the n-1 edges [r[i], r[i+1]] in order
\* and, for a closed line of n >= 3 refs, the closing edge [r[n-1], r[0]]
\* after them; of a polygon it returns no edge.
C7_Edges ==
    su_pc \in {"edges", "done"} =>
        LET r == su.refs
            n == Len(r)
            e == su_out.edges
            closed == su.flags.type = 1 /\ n >= 3
        IN  /\ su.flags.type = 0 => e = <<>>
            /\ (su.flags.type # 0 /\ n = 1) => e = << <<r[1], r[1]>> >>
            /\ (su.flags.type # 0 /\ n >= 2) =>
                  /\ Len(e) = IF closed THEN n ELSE n - 1
                  /\ \A i \in 1..(n - 1) : e[i] = <<r[i], r[i + 1]>>
                  /\ closed => e[n] = <<r[n], r[1]>>

\* a closed line of 3 refs with its closing edge last
C7_Witness ==
    /\ su_pc = "edges"
    /\ su.flags.type = 1
    /\ su.refs = <<0, 1, 2>>
    /\ su_out.edges = << <<0, 1>>, <<1, 2>>, <<2, 0>> >>

(***************************************************************************)
(* The exporters, export_ac3d.py and AC3D.py.                              *)
(*                                                                         *)
(* A Blender scene is a sequence of objects, each with the index of its    *)
(* parent (0: none) in that sequence.  Transforms are translations only    *)
(* and the global matrix is the identity, so that a vertex keeps its       *)
(* coordinates and an object its location relative to its parent.  The     *)
(* scale of an object is kept in whole numbers.  A mesh has at most one UV *)
(* texture, which holds four UVs for every face.                           *)
(***************************************************************************)
BlMaterial(name, amb, intensity) ==
    [name |-> name, diffuse_color |-> <<100000, 0, 0>>, ambient |-> amb, emit |-> 0,
     mirror_color |-> <<100000, 100000, 100000>>,
     specular_color |-> <<50000, 50000, 50000>>,
     specular_intensity |-> intensity, alpha |-> 100000]

Red == BlMaterial(<<"Red">>, 20000, 50000)
Crimson == BlMaterial(<<"Crimson">>, 20000, 50000)
Shiny == BlMaterial(<<"Shiny">>, 20000, 60000)
Gloss == BlMaterial(<<"Gloss">>, 20000, 50500)
Tint == BlMaterial(<<"Tint">>, 20004, 50000)

BlFace(raw, mat, smooth) ==
    [vertices_raw |-> raw, material_index |-> mat, use_smooth |-> smooth]

TriMesh ==
    [name |-> <<"Tri">>, show_double_sided |-> FALSE,
     vertices |-> << <<0, 0, 0>>, <<100000, 0, 0>>, <<0, 100000, 0>> >>,
     faces |-> << BlFace(<<0, 1, 2, 0>>, 0, FALSE) >>, uv_textures |-> <<>>]

QuadMesh ==
    [name |-> <<"Quad">>, show_double_sided |-> TRUE,
     vertices |-> << <<0, 0, 0>>, <<100000, 0, 0>>, <<0, 100000, 0>>,
                     <<100000, 100000, 0>> >>,
     faces |-> << BlFace(<<0, 1, 3, 2>>, 0, TRUE) >>, uv_textures |-> <<>>]

TwoFaceMesh ==
    [name |-> <<"Two">>, show_double_sided |-> FALSE,
     vertices |-> << <<0, 0, 0>>, <<100000, 0, 0>>, <<0, 100000, 0>>,
                     <<100000, 100000, 0>> >>,
     faces |-> << BlFace(<<0, 1, 2, 0>>, 0, FALSE), BlFace(<<1, 3, 2, 0>>, 1, TRUE) >>,
     uv_textures |-> <<>>]

\* a mesh in the plane x = 0 with a UV texture: a quad and a triangle, the
\* four UVs of each face
PlainMesh ==
    [name |-> <<"Plain">>, show_double_sided |-> FALSE,
     vertices |-> << <<0, 0, 0>>, <<0, 100000, 0>>, <<0, 100000, 100000>>,
                     <<0, 0, 100000>> >>,
     faces |-> << BlFace(<<0, 1, 2, 3>>, 0, FALSE), BlFace(<<1, 2, 3, 0>>, 0, TRUE) >>,
     uv_textures |-> << << << <<0, 0>>, <<100000, 0>>, <<100000, 100000>>, <<0, 100000>> >>,
                           << <<50000, 0>>, <<100000, 50000>>, <<20000, 100000>>, <<0, 0>> >>
                        >> >>]

NoMesh ==
    [name |-> <<>>, show_double_sided |-> FALSE, vertices |-> <<>>, faces |-> <<>>,
     uv_textures |-> <<>>]

BlObject(type, name, loc, slots, mesh) ==
    [type |-> type, name |-> name, location |-> loc, scale |-> <<1, 1, 1>>,
     material_slots |-> slots, data |-> mesh, parent |-> 0]

\* the objects a scene is made of
Kinds ==
    { BlObject("MESH", <<"Box">>, <<0, 0, 0>>, <<Red>>, TriMesh),
      BlObject("MESH", <<"my", SP, "box">>, <<100000, 0, 0>>, <<Crimson>>, QuadMesh),
      BlObject("MESH", <<"Lid">>, <<0, 0, 100000>>, <<Red, Shiny>>, TwoFaceMesh),
      BlObject("MESH", <<"Tinted">>, <<0, 0, 0>>, <<Tint, Gloss>>, TwoFaceMesh),
      BlObject("EMPTY", <<"Group">>, <<0, 100000, 0>>, <<>>, NoMesh) }

MaxObjs == 3        \* objects of a scene

\* how the objects of a scene hang together: all without a parent, each the
\* child of the one before it, all but the first children of the first, or
\* the second the child of the first and the others without a parent
ParentOf(shape, i) ==
    CASE shape = "flat" -> 0
      [] shape = "chain" -> i - 1
      [] shape = "star" -> IF i = 1 THEN 0 ELSE 1
      [] shape = "fork" -> IF i = 2 THEN 1 ELSE 0

\* the scenes of three objects in which the second is the child of the first
ForkScenes ==
    { [i \in 1..3 |-> [pick[i] EXCEPT !.parent = ParentOf("fork", i)]] :
          pick \in [1..3 -> Kinds] }

\* a mesh without a material, mirrored in x (which leaves its vertices, all
\* in the plane x = 0, where they are)
Plain ==
    [BlObject("MESH", <<"Plain">>, <<0, 0, 0>>, <<>>, PlainMesh) EXCEPT !.scale = <<-1, 1, 1>>]

Box == BlObject("MESH", <<"Box">>, <<0, 0, 0>>, <<Red>>, TriMesh)

\* the scenes with the mesh without a material: alone, before and after a
\* mesh with one
PlainScenes == { <<Plain>>, <<Plain, Box>>, <<Box, Plain>> }

Scenes ==
    UNION { { [i \in 1..n |-> [pick[i] EXCEPT !.parent = ParentOf(shape, i)]] :
                  pick \in [1..n -> Kinds], shape \in {"flat", "chain", "star"} }
            : n \in 1..MaxObjs }
    \cup ForkScenes \cup PlainScenes

\* the indices of the objects of the scene whose parent is p, in the order
\* of bpy.data.objects
RECURSIVE ChildrenFrom(_, _, _)
ChildrenFrom(sc, p, i) ==
    IF i > Len(sc) THEN <<>>
    ELSE (IF sc[i].parent = p THEN <<i>> ELSE <<>>) \o ChildrenFrom(sc, p, i + 1)

Abs(x) == IF x < 0 THEN -x ELSE x

mircol_as_emis == TRUE
export_lamps == FALSE

\* the product of a colour and a factor, both in units of 1e-5 (the colour a
\* multiple of 0.01, the factor of 0.001)
Scale(v, k) == [i \in 1..Len(v) |-> (v[i] \div 1000) * (k \div 100)]

\* AcMat.from_blender_mat (export_ac3d.py)
from_blender_mat(bl_mat) ==
    [name |-> bl_mat.name,
     rgb |-> bl_mat.diffuse_color,
     amb |-> <<bl_mat.ambient, bl_mat.ambient, bl_mat.ambient>>,
     emis |-> <<bl_mat.emit, bl_mat.emit, bl_mat.emit>>,
     spec |-> bl_mat.specular_color,
     shi |-> (bl_mat.specular_intensity * 100) \div 100000,
     trans |-> 100000 - bl_mat.alpha]

\* Material.__init__ (AC3D.py) for a Blender material
Material(bl_mat) ==
    [name |-> bl_mat.name,
     rgb |-> bl_mat.diffuse_color,
     amb |-> <<bl_mat.ambient, bl_mat.ambient, bl_mat.ambient>>,
     emis |-> IF mircol_as_emis THEN Scale(bl_mat.mirror_color, bl_mat.emit)
              ELSE <<bl_mat.emit, bl_mat.emit, bl_mat.emit>>,
     spec |-> bl_mat.specular_color,
     shi |-> (bl_mat.specular_intensity * 100) \div 100000,
     trans |-> 100000 - bl_mat.alpha]

\* Material._feq: abs(rhs - lhs) < 0.0001
feq(lhs, rhs) == Abs(rhs - lhs) < 10

Material_same_as_mutant(a, b) ==
    /\ a.name = b.name
    /\ \A i \in 1..3 : /\ feq(a.rgb[i], b.rgb[i]) /\ feq(a.amb[i], b.amb[i])
                       /\ feq(a.emis[i], b.emis[i]) /\ feq(a.spec[i], b.spec[i])
    /\ feq(a.shi * 100000, b.shi * 100000)
    /\ feq(a.trans, b.trans)

\* Material.same_as (AC3D.py); shi is a whole number, the others are floats
Material_same_as(a, b) ==
    /\ \A i \in 1..3 : /\ feq(a.rgb[i], b.rgb[i]) /\ feq(a.amb[i], b.amb[i])
                       /\ feq(a.emis[i], b.emis[i]) /\ feq(a.spec[i], b.spec[i])
    /\ feq(a.shi * 100000, b.shi * 100000)
    /\ feq(a.trans, b.trans)

\* AcMat.same_as (export_ac3d.py)
AcMat_same_as(a, b) ==
    /\ a.rgb = b.rgb /\ a.amb = b.amb /\ a.emis = b.emis /\ a.spec = b.spec
    /\ a.shi = b.shi /\ a.trans = b.trans

SetMax(S) == CHOOSE x \in S : \A y \in S : y <= x
SetMin(S) == CHOOSE x \in S : \A y \in S : x <= y

RECURSIVE parse_blender_materials_mutant(_, _)
parse_blender_materials_mutant(material_slots, r) ==
    IF material_slots = <<>> THEN r
    ELSE LET ac_mat == from_blender_mat(Head(material_slots))
             same == { i \in 1..Len(r.table) : AcMat_same_as(r.table[i], ac_mat) }
         IN  parse_blender_materials_mutant(Tail(material_slots),
                 IF same = {}
                 THEN [table |-> <<ac_mat>> \o r.table,
                       xref |-> Append([k \in 1..Len(r.xref) |-> r.xref[k] + 1], 0)]
                 ELSE [table |-> r.table, xref |-> Append(r.xref, SetMax(same) - 1)])

\* AcObj.parse_blender_materials (export_ac3d.py): r.table is the material
\* table, r.xref the object's ac_mats.  The loop over the table goes on
\* after a match (continue), so the last entry that matches is taken.
RECURSIVE parse_blender_materials(_, _)
parse_blender_materials(material_slots, r) ==
    IF material_slots = <<>> THEN r
    ELSE LET ac_mat == from_blender_mat(Head(material_slots))
             same == { i \in 1..Len(r.table) : AcMat_same_as(r.table[i], ac_mat) }
         IN  parse_blender_materials(Tail(material_slots),
                 IF same = {}
                 THEN [table |-> Append(r.table, ac_mat),
                       xref |-> Append(r.xref, Len(r.table))]
                 ELSE [table |-> r.table, xref |-> Append(r.xref, SetMax(same) - 1)])

RECURSIVE parseMaterials_mutant(_, _)
parseMaterials_mutant(materials, r) ==
    IF materials = <<>> THEN r
    ELSE parseMaterials_mutant(Tail(materials),
             [table |-> Append(r.table, Material(Head(materials))),
              xref |-> Append(r.xref, Len(r.table))])

\* Poly._parseMaterials (AC3D.py): the first entry that matches is taken
RECURSIVE parseMaterials(_, _)
parseMaterials(materials, r) ==
    IF materials = <<>> THEN r
    ELSE LET ac_mat == Material(Head(materials))
             same == { i \in 1..Len(r.table) : Material_same_as(r.table[i], ac_mat) }
         IN  parseMaterials(Tail(materials),
                 IF same = {}
                 THEN [table |-> Append(r.table, ac_mat),
                       xref |-> Append(r.xref, Len(r.table))]
                 ELSE [table |-> r.table, xref |-> Append(r.xref, SetMin(same) - 1)])

\* AcSurf.parse_blender_face and Surface.parse_blender_face, but for the
\* material index: type 0, the first three vertices and the fourth unless it
\* is 0, and for each the UV of the face (uv_face, <<>> for None) or [0, 0]
ExSurface(bl_face, is_two_sided, is_flipped, mat, uv_face) ==
    LET raw == bl_face.vertices_raw
        four == raw[4] # 0
        refs == SubSeq(raw, 1, 3) \o (IF four THEN <<raw[4]>> ELSE <<>>)
    IN  [surf_type |-> 0, smooth_shaded |-> bl_face.use_smooth, twosided |-> is_two_sided,
         mat |-> mat, refs |-> refs,
         uv_refs |-> IF uv_face # <<>>
                     THEN SubSeq(uv_face, 1, 3) \o (IF four THEN <<uv_face[4]>> ELSE <<>>)
                     ELSE [i \in 1..Len(refs) |-> <<0, 0>>],
         is_flipped |-> is_flipped]

\* uv_tex.data[face_idx] of the first UV texture of the mesh, <<>> for None
TexFace(mesh, i) == IF Len(mesh.uv_textures) > 0 THEN mesh.uv_textures[1][i] ELSE <<>>

\* AcObj.parse_faces (export_ac3d.py): a face of a mesh with materials takes
\* ac_mats[material_index]
parse_faces(b, xref) ==
    [i \in 1..Len(b.data.faces) |->
        ExSurface(b.data.faces[i], b.data.show_double_sided, FALSE,
                  IF Len(b.material_slots) > 0
                  THEN xref[b.data.faces[i].material_index + 1] ELSE 0,
                  TexFace(b.data, i))]

\* Poly._parseFaces (AC3D.py): a face takes ac_mats[material_index] when
\* that index is a key of ac_mats
parseFaces(b, xref) ==
    [i \in 1..Len(b.data.faces) |->
        ExSurface(b.data.faces[i], b.data.show_double_sided,
                  b.scale[1] * b.scale[2] * b.scale[3] < 0,
                  IF b.data.faces[i].material_index < Len(xref)
                  THEN xref[b.data.faces[i].material_index + 1] ELSE 0,
                  TexFace(b.data, i))]

\* AcObj.__init__ (export_ac3d.py) and Object.__init__ (AC3D.py): loc is
\* <<>> for None, rot tells whether the object has a rotation matrix
ExObj(bl, type, name, parent) ==
    [bl |-> bl, type |-> type, name |-> name, data |-> <<>>, url |-> <<>>,
     tex_name |-> <<>>, texrep |-> <<1, 1>>, loc |-> <<>>, rot |-> FALSE,
     vert_list |-> <<>>, surf_list |-> <<>>, children |-> <<>>, parent |-> parent,
     ac_mats |-> <<>>]

Item(bl, parent) == [bl |-> bl, parent |-> parent]

ItemsOf(sc, p, node) ==
    LET c == ChildrenFrom(sc, p, 1) IN [i \in 1..Len(c) |-> Item(c[i], node)]

\* One round of the loop of AcObj.parse_sub_objects (export_ac3d.py): AcObj
\* for the next Blender object, parse_blender_object on it and, its export
\* flag set, the append to the children of its parent.  The sub-objects of
\* a group are parsed next, before the objects that follow it.
parse_blender_object ==
    /\ exporter = "export_ac3d" /\ ex_pc = "parse" /\ ex_todo # <<>>
    /\ LET it == Head(ex_todo)
           b == scene[it.bl]
           id == Len(ex_objs) + 1
           typ == CASE b.type = "LAMP" -> "lamp"
                    [] b.type \in {"MESH", "LATTICE", "CURVE", "SURFACE"} -> "poly"
                    [] b.type = "EMPTY" -> "group"
                    [] OTHER -> "world"
           flag == CASE typ = "lamp" -> export_lamps
                     [] typ \in {"poly", "group"} -> TRUE
                     [] OTHER -> FALSE
           \* parse_lamp clears the flag of a lamp
           bl_export_flag == flag /\ typ # "lamp"
           r == IF typ = "poly"
                THEN parse_blender_materials(b.material_slots,
                         [table |-> ex_mats, xref |-> <<>>])
                ELSE [table |-> ex_mats, xref |-> <<>>]
           o == [ExObj(it.bl, typ, b.name, it.parent) EXCEPT
                    !.loc = b.location, !.rot = TRUE,
                    !.data = IF typ = "poly" THEN b.data.name ELSE <<>>,
                    !.ac_mats = r.xref,
                    !.vert_list = IF typ = "poly" THEN b.data.vertices ELSE <<>>,
                    !.surf_list = IF typ = "poly" THEN parse_faces(b, r.xref) ELSE <<>>]
           rest == (IF typ = "group" THEN ItemsOf(scene, it.bl, id) ELSE <<>>)
                   \o Tail(ex_todo)
       IN  /\ ex_objs' = [Append(ex_objs, o) EXCEPT
                             ![it.parent].children =
                                 IF bl_export_flag THEN Append(@, id) ELSE @]
           /\ ex_mats' = r.table
           /\ ex_todo' = rest
           /\ ex_pc' = IF rest = <<>> THEN "write" ELSE "parse"
    /\ UNCHANGED <<call_vars, exporter, scene, import_vars, cause, surf_vars>>

\* Object.parse (AC3D.py) of one object of the tree.  The tree is built by
\* the caller of AC3D.py, taken here to make a Poly of a mesh and a Group of
\* an empty and to add every object to the object of its Blender parent
\* (addChild); the object is made here, just before it is parsed.
Object_parse ==
    /\ exporter = "AC3D" /\ ex_pc = "parse" /\ ex_todo # <<>>
    /\ LET it == Head(ex_todo)
           b == scene[it.bl]
           id == Len(ex_objs) + 1
           typ == IF b.type = "MESH" THEN "poly" ELSE "group"
           r == IF typ = "poly"
                THEN parseMaterials(b.material_slots, [table |-> ex_mats, xref |-> <<>>])
                ELSE [table |-> ex_mats, xref |-> <<>>]
           o == [ExObj(it.bl, typ, RemoveQuotes(b.name), it.parent) EXCEPT
                    !.loc = b.location,
                    !.ac_mats = r.xref,
                    !.vert_list = IF typ = "poly" THEN b.data.vertices ELSE <<>>,
                    !.surf_list = IF typ = "poly" THEN parseFaces(b, r.xref) ELSE <<>>]
           rest == ItemsOf(scene, it.bl, id) \o Tail(ex_todo)
       IN  /\ ex_objs' = [Append(ex_objs, o) EXCEPT ![it.parent].children = Append(@, id)]
           /\ ex_mats' = r.table
           /\ ex_todo' = rest
           /\ ex_pc' = IF rest = <<>> THEN "write" ELSE "parse"
    /\ UNCHANGED <<call_vars, exporter, scene, import_vars, cause, surf_vars>>

(***************************************************************************)
(* The writers.                                                            *)
(***************************************************************************)
Words3(f, v) == f[v[1]] \o <<SP>> \o f[v[2]] \o <<SP>> \o f[v[3]]

\* AcMat.write_ac_material and Material.write: the same format string
write_ac_material(m) ==
    LET f4 == [v \in {m.rgb[i] : i \in 1..3} \cup {m.amb[i] : i \in 1..3}
                     \cup {m.emis[i] : i \in 1..3} \cup {m.spec[i] : i \in 1..3}
                     \cup {m.trans} |-> Fixed4(v)]
    IN  <<"MATERIAL", SP, QT>> \o m.name \o <<QT, SP, "rgb", SP>> \o Words3(f4, m.rgb)
        \o <<SP, SP, "amb", SP>> \o Words3(f4, m.amb)
        \o <<SP, SP, "emis", SP>> \o Words3(f4, m.emis)
        \o <<SP, SP, "spec", SP>> \o Words3(f4, m.spec)
        \o <<SP, SP, "shi", SP>> \o IntStr(m.shi) \o <<SP, "trans", SP>> \o f4[m.trans]

\* SurfaceFlags.getFlags and AcSurfFlags.get_flags
getFlags(s) ==
    (s.surf_type % 16) + (IF s.smooth_shaded THEN 16 ELSE 0)
                       + (IF s.twosided THEN 32 ELSE 0)

Reverse(s) == [i \in 1..Len(s) |-> s[Len(s) + 1 - i]]

RefLine(s, n) ==
    IntStr(s.refs[n]) \o <<SP>> \o Fixed6(s.uv_refs[n][1]) \o <<SP>> \o Fixed6(s.uv_refs[n][2])

write_ac_surface_mutant(s) ==
    LET order == IF s.is_flipped THEN Reverse([i \in 1..Len(s.refs) |-> i])
                 ELSE [i \in 1..Len(s.refs) |-> i]
    IN  << <<"SURF", SP>> \o HexStr(getFlags(s)),
           <<"mat", SP>> \o IntStr(s.mat),
           <<"refs", SP>> \o IntStr(Len(s.refs)) >>
        \o [i \in 1..Len(s.refs) |->
               IntStr(s.refs[order[i]]) \o <<SP>> \o Fixed6(s.uv_refs[i][1])
               \o <<SP>> \o Fixed6(s.uv_refs[i][2])]

\* AcSurf.write_ac_surface and Surface.write, which writes the refs of a
\* flipped surface last to first
write_ac_surface(s) ==
    LET order == IF s.is_flipped THEN Reverse([i \in 1..Len(s.refs) |-> i])
                 ELSE [i \in 1..Len(s.refs) |-> i]
    IN  << <<"SURF", SP>> \o HexStr(getFlags(s)),
           <<"mat", SP>> \o IntStr(s.mat),
           <<"refs", SP>> \o IntStr(Len(s.refs)) >>
        \o [i \in 1..Len(s.refs) |-> RefLine(s, order[i])]

RECURSIVE Concat(_)
Concat(ss) == IF ss = <<>> THEN <<>> ELSE Head(ss) \o Concat(Tail(ss))

Identity3 == <<"rot", SP, "1.0", SP, "0.0", SP, "0.0", SP, SP, "0.0", SP, "1.0", SP, "0.0",
               SP, SP, "0.0", SP, "0.0", SP, "1.0">>

RECURSIVE write_ac_output_mutant(_, _)
write_ac_output_mutant(t, id) ==
    LET o == t[id]
        fr == [v \in {o.loc[i] : i \in 1..Len(o.loc)} |-> FloatStr(v)]
        f8 == [v \in UNION { {o.vert_list[i][k] : k \in 1..3} : i \in 1..Len(o.vert_list) }
                  |-> Fixed8(v)]
    IN  << <<"OBJECT", SP, o.type>> >>
        \o (IF Len(o.name) > 0 THEN << <<"name", SP, QT>> \o o.name \o <<QT>> >> ELSE <<>>)
        \o (IF Len(o.data) > 0
            THEN << <<"data", SP>> \o IntStr(Len(o.data)), o.data >> ELSE <<>>)
        \o (IF o.loc # <<>> THEN << <<"loc", SP>> \o Words3(fr, o.loc) >> ELSE <<>>)
        \o (IF o.rot THEN <<Identity3>> ELSE <<>>)
        \o (IF Len(o.vert_list) > 0
            THEN << <<"numvert", SP>> \o IntStr(Len(o.vert_list)) >>
                 \o [i \in 1..Len(o.vert_list) |-> Words3(f8, o.vert_list[i])]
            ELSE <<>>)
        \o (IF Len(o.surf_list) > 0
            THEN << <<"numsurf", SP>> \o IntStr(Len(o.surf_list)) >>
                 \o Concat([i \in 1..Len(o.surf_list) |-> write_ac_surface(o.surf_list[i])])
            ELSE <<>>)
        \o Concat([i \in 1..Len(o.children) |-> write_ac_output_mutant(t, o.children[i])])
        \o << <<"kids", SP>> \o IntStr(Len(o.children)) >>

\* AcObj.write_ac_output (export_ac3d.py)
RECURSIVE write_ac_output(_, _)
write_ac_output(t, id) ==
    LET o == t[id]
        fr == [v \in {o.loc[i] : i \in 1..Len(o.loc)} |-> FloatStr(v)]
        f8 == [v \in UNION { {o.vert_list[i][k] : k \in 1..3} : i \in 1..Len(o.vert_list) }
                  |-> Fixed8(v)]
    IN  << <<"OBJECT", SP, o.type>> >>
        \o (IF Len(o.name) > 0 THEN << <<"name", SP, QT>> \o o.name \o <<QT>> >> ELSE <<>>)
        \o (IF Len(o.data) > 0
            THEN << <<"data", SP>> \o IntStr(Len(o.data)), o.data >> ELSE <<>>)
        \o (IF Len(o.tex_name) > 0
            THEN << <<"texture", SP, QT>> \o o.tex_name \o <<QT>>,
                    <<"texrep", SP>> \o IntStr(o.texrep[1]) \o <<SP>> \o IntStr(o.texrep[2]) >>
            ELSE <<>>)
        \o (IF o.loc # <<>> THEN << <<"loc", SP>> \o Words3(fr, o.loc) >> ELSE <<>>)
        \o (IF o.rot THEN <<Identity3>> ELSE <<>>)
        \o (IF Len(o.vert_list) > 0
            THEN << <<"numvert", SP>> \o IntStr(Len(o.vert_list)) >>
                 \o [i \in 1..Len(o.vert_list) |-> Words3(f8, o.vert_list[i])]
            ELSE <<>>)
        \o (IF Len(o.surf_list) > 0
            THEN << <<"numsurf", SP>> \o IntStr(Len(o.surf_list)) >>
                 \o Concat([i \in 1..Len(o.surf_list) |-> write_ac_surface(o.surf_list[i])])
            ELSE <<>>)
        \o << <<"kids", SP>> \o IntStr(Len(o.children)) >>
        \o Concat([i \in 1..Len(o.children) |-> write_ac_output(t, o.children[i])])

\* Object.write with Poly._write (AC3D.py)
RECURSIVE Object_write(_, _)
Object_write(t, id) ==
    LET o == t[id]
        f4 == [v \in {o.loc[i] : i \in 1..Len(o.loc)} |-> Fixed4(v)]
        f6 == [v \in UNION { {o.vert_list[i][k] : k \in 1..3} : i \in 1..Len(o.vert_list) }
                  |-> Fixed6(v)]
    IN  << <<"OBJECT", SP, o.type>>, <<"name", SP, QT>> \o o.name \o <<QT>> >>
        \o (IF Len(o.data) > 0
            THEN << <<"data", SP>> \o IntStr(Len(o.data)), o.data >> ELSE <<>>)
        \o (IF Len(o.url) > 0 THEN << <<"url", SP>> \o o.url >> ELSE <<>>)
        \o (IF o.parent # 0 /\ o.loc # <<>>
            THEN << <<"loc", SP>> \o Words3(f4, o.loc) >> ELSE <<>>)
        \o (IF Len(o.tex_name) > 0
            THEN << <<"texture", SP, QT>> \o o.tex_name \o <<QT>>,
                    <<"texrep", SP>> \o IntStr(o.texrep[1]) \o <<SP>> \o IntStr(o.texrep[2]) >>
            ELSE <<>>)
        \o (IF Len(o.vert_list) > 0
            THEN << <<"numvert", SP>> \o IntStr(Len(o.vert_list)) >>
                 \o [i \in 1..Len(o.vert_list) |-> Words3(f6, o.vert_list[i])]
            ELSE <<>>)
        \o (IF Len(o.surf_list) > 0
            THEN << <<"numsurf", SP>> \o IntStr(Len(o.surf_list)) >>
                 \o Concat([i \in 1..Len(o.surf_list) |-> write_ac_surface(o.surf_list[i])])
            ELSE <<>>)
        \o << <<"kids", SP>> \o IntStr(Len(o.children)) >>
        \o Concat([i \in 1..Len(o.children) |-> Object_write(t, o.children[i])])

ExportAC3D_write_mutant ==
    /\ ex_pc = "write"
    /\ ac_file' = << HeaderLine("b") >>
                  \o (IF exporter = "export_ac3d" THEN write_ac_output(ex_objs, 1)
                      ELSE Object_write(ex_objs, 1))
                  \o [i \in 1..Len(ex_mats) |-> write_ac_material(ex_mats[i])]
    /\ ex_pc' = "written"
    /\ pc' = "header"
    /\ UNCHANGED <<call_vars, pos, file_state, header, reports, matlist, oblist, objs, stack,
                   lastline, readPrevious, line_num, todo, exc, cause,
                   exporter, scene, ex_objs, ex_mats, ex_todo, surf_vars>>

\* ExportAC3D.__init__ from the open of the file on: the header, the
\* materials of the table, then the world and below it the tree.  For
\* AC3D.py the caller writes the header and the materials the same way.
ExportAC3D_write ==
    /\ ex_pc = "write"
    /\ ac_file' = << HeaderLine("b") >>
                  \o [i \in 1..Len(ex_mats) |-> write_ac_material(ex_mats[i])]
                  \o (IF exporter = "export_ac3d" THEN write_ac_output(ex_objs, 1)
                      ELSE Object_write(ex_objs, 1))
    /\ ex_pc' = "written"
    /\ pc' = "header"
    /\ UNCHANGED <<call_vars, pos, file_state, header, reports, matlist, oblist, objs, stack,
                   lastline, readPrevious, line_num, todo, exc, cause,
                   exporter, scene, ex_objs, ex_mats, ex_todo, surf_vars>>

WorldName == <<"World">>

\* a scene is exported by one of the two exporters and the file read back
InitRoundTrip ==
    /\ exporter \in {"export_ac3d", "AC3D"}
    /\ scene \in Scenes
    /\ ex_objs = << ExObj(0, "world", IF exporter = "AC3D" THEN WorldName ELSE <<>>, 0) >>
    /\ ex_mats = <<>>
    /\ ex_todo = ItemsOf(scene, 0, 1)
    /\ ex_pc = "parse"
    /\ NoImport
    /\ NoSurfaceCall
    /\ NoCall

NextRoundTrip ==
    \/ parse_blender_object
    \/ Object_parse
    \/ ExportAC3D_write
    \/ ImportAC3D_init
    \/ read_ac_file
    \/ read_ac_object
    \/ read_vertices
    \/ read_surfaces
    \/ read_ac_surfaces
    \/ read_surf_refs
    \/ read_children
    \/ create_blender_object

SpecRoundTrip == InitRoundTrip /\ [][NextRoundTrip]_vars

(***************************************************************************)
(* Properties of the exporters and of the round trip.                      *)
(***************************************************************************)
\* what a document holds of an object: of the exporter's tree and of the
\* importer's
RECURSIVE ExDoc(_)
ExDoc(id) ==
    LET o == ex_objs[id] IN
    [type |-> Tok(o.type), name |-> o.name, numvert |-> Len(o.vert_list),
     surfs |-> [i \in 1..Len(o.surf_list) |->
                   [flags |-> [type |-> o.surf_list[i].surf_type,
                               shaded |-> o.surf_list[i].smooth_shaded,
                               two_sided |-> o.surf_list[i].twosided],
                    mat_index |-> o.surf_list[i].mat,
                    refs |-> o.surf_list[i].refs,
                    uv_refs |-> o.surf_list[i].uv_refs]],
     kids |-> [i \in 1..Len(o.children) |-> ExDoc(o.children[i])]]

RECURSIVE ImDoc(_)
ImDoc(id) ==
    LET o == objs[id] IN
    [type |-> o.type, name |-> o.name, numvert |-> Len(o.vert_list),
     surfs |-> o.surf_list,
     kids |-> [i \in 1..Len(o.children) |-> ImDoc(o.children[i])]]

\* the exported file has been read to its end and nothing created yet
ReadBack ==
    /\ ex_pc = "written"
    /\ pc = "create"
    /\ \A i \in 1..Len(objs) : ~objs[i].created

\* C10: the document read back from an exported file has the tree shape,
\* the names (also those with spaces), the vertex, surface and material
\* counts and, surface by surface, the flags, material index, refs and UVs
\* of the tree the exporter wrote.
C10_RoundTrip ==
    ReadBack =>
        /\ Len(matlist) = Len(ex_mats)
        /\ Len(oblist) = 1
        /\ ImDoc(oblist[1]) = ExDoc(1)

\* the exporter has parsed every object of the scene
Parsed == ex_pc \in {"write", "written"}

PolyNodes == { i \in 1..Len(ex_objs) : ex_objs[i].type = "poly" }

\* the Blender materials in the slots of the meshes parsed
UsedMaterials ==
    UNION { { scene[ex_objs[i].bl].material_slots[k] :
                  k \in 1..Len(scene[ex_objs[i].bl].material_slots) } : i \in PolyNodes }

\* the values of a Blender material as the running exporter takes them
ValuesOf(bl_mat) ==
    [(IF exporter = "AC3D" THEN Material(bl_mat) ELSE from_blender_mat(bl_mat))
        EXCEPT !.name = <<>>]

UsedValues == { ValuesOf(m) : m \in UsedMaterials }

\* C9: under either exporter, when the materials of all the meshes have the
\* same values, whatever their names, the material table has exactly 1
\* entry; when they have two sets of values that differ in shininess only,
\* it has exactly 2 entries.
C9_MaterialDedup ==
    Parsed =>
        /\ Cardinality(UsedValues) = 1 => Len(ex_mats) = 1
        /\ (/\ Cardinality(UsedValues) = 2
            /\ \E a, b \in UsedValues :
                  a.shi # b.shi /\ [a EXCEPT !.shi = 0] = [b EXCEPT !.shi = 0])
              => Len(ex_mats) = 2

\* two meshes, their materials of two names and the same values, one entry
C9_Witness ==
    /\ Parsed
    /\ exporter = "AC3D"
    /\ Cardinality(PolyNodes) >= 2
    /\ Cardinality({ m.name : m \in UsedMaterials }) >= 2
    /\ Cardinality(UsedValues) = 1
    /\ Len(ex_mats) = 1

(***************************************************************************)
(* Properties of the reader: lines, pushback, the ways out of the import.  *)
(***************************************************************************)
\* a handler has set the readPrevious attribute of its object in this step
PushesBack ==
    \E i \in 1..Len(objs) : ~objs[i].readPrevious /\ objs'[i].readPrevious

\* what the next call of readLine does
NextRead == readLine(Cur)

\* C11: when read_vertices or read_children meets a line too short to use
\* and pushes it back, the very next readLine call returns that same line
\* (the line last returned) and takes no further line from the file.
C11_Pushback ==
    [][PushesBack => /\ ~NextRead'.none
                     /\ NextRead'.line = lastline'
                     /\ NextRead'.pos = pos']_vars

\* the line holds a character that is not whitespace
HasWord(line) == \E k \in 1..Len(line) : line[k] # SP

\* what readLine gives after p lines of the file, no pushback pending,
\* against the first later line that holds a word
ReadsNextWordLine(p) ==
    LET R == readLine([Cur EXCEPT !.pos = p, !.readPrevious = FALSE])
    IN  IF R.none THEN \A i \in (p + 1)..Len(ac_file) : ~HasWord(ac_file[i])
        ELSE /\ R.pos \in (p + 1)..Len(ac_file)
             /\ HasWord(ac_file[R.pos])
             /\ \A i \in (p + 1)..(R.pos - 1) : ~HasWord(ac_file[i])
             /\ R.line = ac_file[R.pos]
             /\ R.lastline = R.line

\* C12: with no pushback pending, readLine called after p lines of the file
\* have been taken returns the first later line that holds a character other
\* than whitespace, as it stands in the file, and leaves the file just after
\* it; it returns None when no such line is left.  This holds from every
\* place of every input (asked before the import starts; the file does not
\* change).  Of the reader at work: the line last returned is never a blank
\* one, and it is the line the file stands after whenever that line holds a
\* word.
C12_ReadLine ==
    /\ pc = "header" => \A p \in 0..Len(ac_file) : ReadsNextWordLine(p)
    /\ pc = "read" =>
          /\ lastline # <<>> => HasWord(lastline)
          /\ (pos > 1 /\ HasWord(ac_file[pos])) => lastline = ac_file[pos]

\* the reader has passed a whitespace-only line and returned the line after
\* it, and a whitespace-only line is still to come
C12_Witness ==
    /\ pc = "read"
    /\ ~readPrevious
    /\ pos > 2
    /\ ~HasWord(ac_file[pos - 1])
    /\ lastline = ac_file[pos]
    /\ pos < Len(ac_file) /\ ~HasWord(ac_file[pos + 1])

\* ImportAC3D.__init__ has been left, by a return or by an exception
Exited == pc \in {"rejected", "done", "crashed"}

\* C13: on every way out of ImportAC3D after the file was opened (header
\* rejected, end of input, an exception of a handler) the file is closed.
C13_ClosedOnEveryExit == Exited => file_state = "closed"

\* C14: for an input with a valid header no exception leaves ImportAC3D
\* while the file is read, and when a handler raised on a malformed line an
\* error has been reported.
C14_MalformedIsReported ==
    (pc \notin {"header", "rejected"} /\ file_state = "open") =>
        /\ exc = "none"
        /\ cause # "none" => Reported("ERROR")
    

(***************************************************************************)
(* Properties of the written file.                                         *)
(***************************************************************************)
LineKey(i) == Key(Split(Strip(ac_file[i])))

\* the lines of the file that start with the given word
LinesOf(word) == { i \in 1..Len(ac_file) : LineKey(i) = word }

\* the file as ExportAC3D leaves it: the header line, one MATERIAL line for
\* every entry of the table in the order of the table, then the first
\* OBJECT line, and no MATERIAL line after an OBJECT line
MaterialsThenObjects ==
    /\ ac_file[1] = HeaderLine("b")
    /\ LinesOf("MATERIAL") = 2..(Len(ex_mats) + 1)
    /\ \A i \in 1..Len(ex_mats) :
          Split(ac_file[i + 1])[2] = Quoted(ex_mats[i].name)
    /\ LinesOf("OBJECT") # {}
    /\ SetMin(LinesOf("OBJECT")) = Len(ex_mats) + 2
    /\ \A i \in LinesOf("MATERIAL"), j \in LinesOf("OBJECT") : i < j

\* C15: nothing is written while the exporter still builds its material
\* table; the file written starts with the header line, then holds every
\* MATERIAL line, then the first OBJECT line, with no MATERIAL line after an
\* OBJECT line; and no step that writes, nor any step after it, changes the
\* material table.
C15_MaterialsBeforeObjects ==
    /\ [](/\ ex_pc \in {"parse", "write"} => ac_file = <<>>
          /\ (ex_pc = "written" /\ pc = "header") => MaterialsThenObjects)
    /\ [][ex_pc' = "written" => ex_mats' = ex_mats]_vars

\* a file written by ExportAC3D with two materials and two polys
C15_Witness ==
    /\ ex_pc = "written"
    /\ exporter = "export_ac3d"
    /\ Len(ex_mats) = 2
    /\ Cardinality(LinesOf("MATERIAL")) = 2
    /\ Cardinality({ i \in LinesOf("OBJECT") : Split(ac_file[i])[2] = Tok("poly") }) >= 2

\* the elements of a set of numbers in rising order
RECURSIVE Sorted(_)
Sorted(S) == IF S = {} THEN <<>> ELSE <<SetMin(S)>> \o Sorted(S \ {SetMin(S)})

\* the objects of the exporter's tree from the given one down, every object
\* before its children and the children in the order they were attached
RECURSIVE PreOrder(_)
PreOrder(id) ==
    <<id>> \o Concat([i \in 1..Len(ex_objs[id].children) |->
                         PreOrder(ex_objs[id].children[i])])

\* the own lines of the k-th object of the file run from its OBJECT line to
\* the line before the next OBJECT line: they start with the type and the
\* name of the object, hold its vertex and surface counts and end with its
\* kids line, the only one among them
BlockOf(k, id, starts) ==
    LET o == ex_objs[id]
        first == starts[k]
        last == IF k < Len(starts) THEN starts[k + 1] - 1 ELSE Len(ac_file)
        own == first..last
    IN  /\ Split(ac_file[first]) = <<Tok("OBJECT"), Tok(o.type)>>
        /\ o.name # <<>> => ac_file[first + 1] = <<"name", SP>> \o Quoted(o.name)
        /\ ac_file[last] = <<"kids", SP>> \o IntStr(Len(o.children))
        /\ \A i \in own : LineKey(i) = "kids" => i = last
        /\ o.vert_list # <<>> =>
              \E i \in own : ac_file[i] = <<"numvert", SP>> \o IntStr(Len(o.vert_list))
        /\ o.surf_list # <<>> =>
              \E i \in own : ac_file[i] = <<"numsurf", SP>> \o IntStr(Len(o.surf_list))
        /\ Cardinality({ i \in own : LineKey(i) = "SURF" }) = Len(o.surf_list)

\* C16: the file written holds the objects of the tree depth-first in
\* pre-order: the k-th OBJECT line of the file opens the k-th object of the
\* pre-order walk (every object before its children, the children in the
\* order attached), and the lines from there to the next OBJECT line are the
\* object's own: its fields first and its kids line last, so that no line of
\* a descendant stands before the kids line of an ancestor.
C16_PreOrder ==
    (ex_pc = "written" /\ pc = "header") =>
        LET starts == Sorted(LinesOf("OBJECT"))
            walk == PreOrder(1)
        IN  /\ Len(starts) = Len(walk)
            /\ \A k \in 1..Len(walk) : BlockOf(k, walk[k], starts)

\* a file written for a tree in which an object with a child is followed by
\* a sister: pre-order and level order differ
C16_Witness ==
    /\ ex_pc = "written" /\ pc = "header"
    /\ Len(ex_objs[1].children) = 2
    /\ Len(ex_objs[ex_objs[1].children[1]].children) = 1
    /\ PreOrder(1) = <<1, 2, 3, 4>>
    /\ ex_objs[4].type = "poly"

\* read_ac_object is about to read a line whose first word is none of the
\* field tokens of an object, which ends its loop
StopsOnForeignLine ==
    /\ Reading("obj")
    /\ ~NextRead.none
    /\ Key(Split(Strip(NextRead.line))) \notin ObjTokens

\* C17: when the loop of read_ac_object stops on a line that is not a field
\* of the object, the line is handed back: the next readLine call, made by
\* the enclosing reader, returns that same line and takes no further line
\* from the file.
C17_LineHandedBack ==
    [][StopsOnForeignLine => /\ ~NextRead'.none
                             /\ NextRead'.pos = pos'
                             /\ NextRead'.line = lastline']_vars

(***************************************************************************)
(* Properties of the surfaces an object keeps.                             *)
(***************************************************************************)
\* the polygon surfaces kept in the surf_list of the object
PolygonsOf(o) == { i \in 1..Len(o.surf_list) : o.surf_list[i].flags.type = 0 }

\* C18: every polygon surface (type 0) kept in the surf_list of an object
\* and every face of its face_list has 3 or 4 refs; polygons with fewer or
\* more are dropped.
C18_PolygonRefs ==
    \A n \in 1..Len(objs) :
        /\ \A i \in PolygonsOf(objs[n]) : Len(objs[n].surf_list[i].refs) \in {3, 4}
        /\ \A j \in 1..Len(objs[n].face_list) : Len(objs[n].face_list[j]) \in {3, 4}

\* the number of refs the SURF block at line i of the file announces: that of
\* its refs line, 0 when the block has none
RefsOfBlock(i) ==
    LET marks == { j \in (i + 1)..Len(ac_file) :
                      LineKey(j) \in {"refs", "SURF", "kids", "OBJECT"} }
    IN  IF marks # {} /\ LineKey(SetMin(marks)) = "refs"
        THEN IntOf(Split(ac_file[SetMin(marks)])[2]) ELSE 0

\* the SURF blocks of the file that are polygons with fewer than 3 refs
DegenerateBlocks ==
    { i \in LinesOf("SURF") :
         AcSurfFlags(Split(ac_file[i])[2]).type = 0 /\ RefsOfBlock(i) < 3 }

\* the polygons with fewer than 3 refs kept in the surf_list of the object
DegenerateIn(o) == { i \in PolygonsOf(o) : Len(o.surf_list[i].refs) < 3 }

RECURSIVE SurfTotal(_)
SurfTotal(n) == IF n = 0 THEN 0 ELSE Len(objs[n].surf_list) + SurfTotal(n - 1)

RECURSIVE DegenerateTotal(_)
DegenerateTotal(n) ==
    IF n = 0 THEN 0 ELSE Cardinality(DegenerateIn(objs[n])) + DegenerateTotal(n - 1)

\* a well-formed input has been read to its end and no object created yet
ParsedWellFormed ==
    /\ ac_file \in WellFormedFiles
    /\ pc = "create"
    /\ \A n \in 1..Len(objs) : ~objs[n].created

C20_MatIndexNeverFatal ==
    (\E n \in 1..Len(objs) :
        \E i \in PolygonsOf(objs[n]) : objs[n].surf_list[i].mat_index >= Len(matlist))
    => ~(pc = "crashed" /\ file_state = "closed" /\ cause = "IndexError")

(***************************************************************************)
(* Properties of the objects created.                                      *)
(***************************************************************************)
\* the object has been given a mesh by create_blender_object
HasMesh(o) == o.created /\ o.vert_list # <<>> /\ Lower(o.type) = Tok("poly")

\* C21: the two-sided flag create_blender_object gives the mesh of an object
\* is the OR of the two_sided flag over all the surfaces of its surf_list,
\* lines and closed lines included: it is set iff at least one of them has
\* the bit 0x20.
C21_TwoSidedIsOr ==
    \A n \in 1..Len(objs) :
        HasMesh(objs[n]) =>
            (objs[n].show_double_sided <=>
                \E i \in 1..Len(objs[n].surf_list) : objs[n].surf_list[i].flags.two_sided)

(***************************************************************************)
(* Properties of the reader of one surface.                                *)
(***************************************************************************)
\* the last line before line p that holds a word (0: none)
PrevWordLine(p) ==
    LET before == { i \in 1..(p - 1) : HasWord(ac_file[i]) }
    IN  IF before = {} THEN 0 ELSE SetMax(before)

\* the line k word lines before line p
RECURSIVE BackWord(_, _)
BackWord(p, k) == IF k = 0 THEN p ELSE BackWord(PrevWordLine(p), k - 1)

\* read_surf_refs is at work: the surface holds the refs read so far, which
\* are those of the lines since the refs line, one for each, and the
\* material index of the mat line just before the refs line, 0 without one
RefsAsRead ==
    LET f == Top(stack)
        k == Len(f.surf.refs)
        r == BackWord(pos, k)
        declared == Split(ac_file[r])
        before == PrevWordLine(r)
    IN  /\ LineKey(r) = "refs"
        /\ f.n > 0
        /\ IntOf(declared[2]) = k + f.n
        /\ Len(f.surf.uv_refs) = k
        /\ \A j \in 1..k :
              LET toks == Split(ac_file[BackWord(pos, k - j)])
              IN  /\ f.surf.refs[j] = IntOf(toks[1])
                  /\ f.surf.uv_refs[j] = FloatsOf(Slice(toks, 1, 3))
        /\ f.surf.mat_index = IF LineKey(before) = "mat"
                              THEN IntOf(Split(ac_file[before])[2]) ELSE 0

\* read_surf_refs reads the last of its lines without an error
LastRefRead == Reading("refs") /\ Top(stack).n = 1 /\ cause' = "none"

\* C22: the material index of a surface is that of the mat line that
\* precedes its refs line and 0 when there is none; refs N takes the next N
\* lines that hold a word, one ref and one UV pair from each, and with the
\* N-th of them the surface ends: that step takes this one line from the
\* file, no line after it, and returns from the surface.
C22_SurfaceBlock ==
    /\ [](Reading("refs") => RefsAsRead)
    /\ [][LastRefRead => /\ pos' = NextRead.pos
                         /\ lastline' = ac_file[pos']
                         /\ Len(stack') < Len(stack)]_vars

\* the third ref line of a refs 3 block with a mat 1 line has just been
\* read and the surface is in the surf_list of its object
C22_Witness ==
    /\ pc = "read"
    /\ pos > 5
    /\ lastline = ac_file[pos]
    /\ LineKey(pos - 3) = "refs"
    /\ LineKey(pos - 4) = "mat"
    /\ \E n \in 1..Len(objs) :
          /\ objs[n].surf_list # <<>>
          /\ objs[n].surf_list[Len(objs[n].surf_list)].mat_index = 1
          /\ Len(objs[n].surf_list[Len(objs[n].surf_list)].refs) = 3

(***************************************************************************)
(* The crease angle of a Poly (AC3D.py).  Blender keeps angles in radians; *)
(* the crease is in degrees, None written as the empty sequence and a      *)
(* number v as <<v>>.                                                      *)
(***************************************************************************)
MaxMods == 2        \* modifiers of an object

Radians == {"0", "pi/6", "4pi/9"}

\* math.degrees
degrees(r) == CASE r = "0" -> 0 [] r = "pi/6" -> 30 [] r = "4pi/9" -> 80

Modifiers == [type : {"EDGE_SPLIT", "SUBSURF"}, split_angle : Radians]

\* the first modifier of the type EDGE_SPLIT, from the i-th on (0: none)
RECURSIVE FirstEdgeSplit(_, _)
FirstEdgeSplit(mods, i) ==
    IF i > Len(mods) THEN 0
    ELSE IF mods[i].type = "EDGE_SPLIT" THEN i ELSE FirstEdgeSplit(mods, i + 1)

\* "not x" of a crease: None and 0.0 are false
Falsy(c) == c = <<>> \/ c = <<0>>

\* the crease that Poly._parseMesh leaves in self.crease, None before it
parseMesh_crease(p) ==
    LET k == FirstEdgeSplit(p.modifiers, 1)
        c == IF k # 0 THEN <<degrees(p.modifiers[k].split_angle)>> ELSE <<>>
    IN  IF Falsy(c)
        THEN IF p.use_auto_smooth THEN <<degrees(p.auto_smooth_angle)>>
             ELSE <<p.crease_angle>>
        ELSE c

Poly_parseMesh ==
    /\ poly # <<>>
    /\ poly.pc = "new"
    /\ poly' = [poly EXCEPT !.crease = parseMesh_crease(poly), !.pc = "parsed"]
    /\ UNCHANGED <<tex, tree, import_vars, cause, surf_vars, export_vars>>

InitCrease ==
    /\ poly \in [modifiers : UNION { [1..n -> Modifiers] : n \in 0..MaxMods },
                 use_auto_smooth : BOOLEAN, auto_smooth_angle : Radians,
                 crease_angle : {0, 61}, crease : {<<>>}, pc : {"new"}]
    /\ tex = <<>>
    /\ tree = <<>>
    /\ NoImport
    /\ NoSurfaceCall
    /\ NoExport

NextCrease == Poly_parseMesh

SpecCrease == InitCrease /\ [][NextCrease]_vars

\* C23: the crease of a parsed Poly is the angle of its first EDGE_SPLIT
\* modifier when it has one, whatever that angle, 0 included; else the
\* auto-smooth angle of the mesh when auto-smooth is on; else the default
\* crease angle of the configuration.
C23_CreasePriority ==
    (poly # <<>> /\ poly.pc = "parsed") =>
        LET k == FirstEdgeSplit(poly.modifiers, 1)
        IN  poly.crease =
                IF k # 0 THEN <<degrees(poly.modifiers[k].split_angle)>>
                ELSE IF poly.use_auto_smooth THEN <<degrees(poly.auto_smooth_angle)>>
                ELSE <<poly.crease_angle>>

(***************************************************************************)
(* The image of a texture, AcMat.get_blender_image (import_ac3d.py).  A    *)
(* path is the sequence of its components, an absolute one led by "/".     *)
(***************************************************************************)
IsAbs(path) == path # <<>> /\ path[1] = "/"

\* os.path.join of two paths
path_join(a, b) == IF IsAbs(b) THEN b ELSE a \o b

\* bpy.path.basename
basename(path) == IF path = <<>> THEN <<>> ELSE <<path[Len(path)]>>

importdir == <<"/", "dir">>

\* the paths get_blender_image tries, in its order
Candidates(tex_name) ==
    << tex_name, path_join(importdir, tex_name),
       path_join(importdir, basename(tex_name)) >>

NoImage == [src |-> "none", path |-> <<>>]

\* The loop of get_blender_image over the candidates from the i-th on: r.loads
\* are the calls of bpy.data.images.load, r.bl_image the image held, r.found
\* the flag.  A load that fails leaves bl_image as it was.
RECURSIVE TryPaths(_, _, _, _, _)
TryPaths(paths, i, exists, broken, r) ==
    IF i > Len(paths) THEN r
    ELSE TryPaths(paths, i + 1, exists, broken,
             IF paths[i] \in exists
             THEN [found |-> TRUE,
                   loads |-> Append(r.loads, paths[i]),
                   bl_image |-> IF paths[i] \in broken THEN r.bl_image
                                ELSE [src |-> "load", path |-> paths[i]]]
             ELSE r)

\* AcMat.get_blender_image
get_blender_image(t) ==
    IF t.in_images
    THEN [t EXCEPT !.bl_image = [src |-> "images", path |-> t.tex_name], !.pc = "done"]
    ELSE LET r == TryPaths(Candidates(t.tex_name), 1, t.exists, t.broken,
                           [found |-> FALSE, loads |-> <<>>, bl_image |-> NoImage])
         IN  [t EXCEPT !.bl_image = r.bl_image, !.loads = r.loads,
                       !.warnings = IF r.found THEN @ ELSE @ + 1,
                       !.pc = "done"]

AcMat_get_blender_image ==
    /\ tex # <<>>
    /\ tex.pc = "call"
    /\ tex' = get_blender_image(tex)
    /\ UNCHANGED <<poly, tree, import_vars, cause, surf_vars, export_vars>>

TexNames == { <<"/", "a", "t.png">>, <<"sub", "t.png">>, <<"t.png">> }

\* every path a candidate can be
TexPaths == UNION { { Candidates(n)[i] : i \in 1..3 } : n \in TexNames }

InitTexture ==
    /\ tex \in [tex_name : TexNames, exists : SUBSET TexPaths,
                broken : { {}, { <<"/", "dir", "t.png">> } },
                in_images : BOOLEAN, bl_image : {NoImage}, loads : {<<>>},
                warnings : {0}, pc : {"call"}]
    /\ poly = <<>>
    /\ tree = <<>>
    /\ NoImport
    /\ NoSurfaceCall
    /\ NoExport

NextTexture == AcMat_get_blender_image

SpecTexture == InitTexture /\ [][NextTexture]_vars

\* the candidates of the call that exist, by their place in the order
Existing == { i \in 1..3 : Candidates(tex.tex_name)[i] \in tex.exists }

\* C24: for a texture that is not yet among Blender's images, the image is
\* loaded once, from the earliest candidate that exists (the path as given,
\* the directory of the file joined with the name, that directory joined
\* with the base name), and a warning is reported only when none exists.
C24_FirstCandidate ==
    (tex # <<>> /\ tex.pc = "done" /\ ~tex.in_images) =>
        IF Existing = {}
        THEN tex.loads = <<>> /\ tex.bl_image = NoImage /\ tex.warnings = 1
        ELSE LET first == Candidates(tex.tex_name)[SetMin(Existing)]
             IN  /\ tex.loads = <<first>>
                 /\ first \notin tex.broken => tex.bl_image = [src |-> "load", path |-> first]
                 /\ tex.warnings = 0

(***************************************************************************)
(* The tree of Objects (AC3D.py) under addChild.  tree.nodes are the       *)
(* Objects made, each with its children (indices into nodes) and its       *)
(* parent (0: None); the argument 0 stands for a value that is no Object.  *)
(***************************************************************************)
MaxTreeObjs == 3    \* Objects made
MaxCalls == 3       \* calls of addChild

\* Object.addChild
addChild(t, self, child) ==
    IF child = 0
    THEN [t EXCEPT !.raised = TRUE, !.calls = @ + 1]
    ELSE [t EXCEPT !.nodes[child].parent = self,
                   !.nodes[self].children = Append(@, child),
                   !.raised = FALSE, !.calls = @ + 1]

Object_addChild ==
    /\ tree # <<>>
    /\ tree.calls < MaxCalls
    /\ \E self \in 1..Len(tree.nodes), child \in 0..Len(tree.nodes) :
          tree' = addChild(tree, self, child)
    /\ UNCHANGED <<poly, tex, import_vars, cause, surf_vars, export_vars>>

\* Object.__init__: no children, no parent
InitTree ==
    /\ \E n \in 1..MaxTreeObjs :
          tree = [nodes |-> [i \in 1..n |-> [children |-> <<>>, parent |-> 0]],
                  raised |-> FALSE, calls |-> 0]
    /\ poly = <<>>
    /\ tex = <<>>
    /\ NoImport
    /\ NoSurfaceCall
    /\ NoExport

NextTree == Object_addChild

SpecTree == InitTree /\ [][NextTree]_vars

\* the places of the node c in the children list of the node p
PlacesIn(p, c) ==
    { k \in 1..Len(tree.nodes[p].children) : tree.nodes[p].children[k] = c }

\* C25: after any calls of addChild every node is in at most one children
\* list, at most once, and its parent is the node whose list holds it; a
\* call with an argument that is no Object raises and leaves every children
\* list as it was.
C25_OneOwner ==
    /\ [](tree # <<>> =>
            \A c \in 1..Len(tree.nodes) :
                /\ Cardinality({ p \in 1..Len(tree.nodes) : PlacesIn(p, c) # {} }) <= 1
                /\ \A p \in 1..Len(tree.nodes) :
                      /\ Cardinality(PlacesIn(p, c)) <= 1
                      /\ PlacesIn(p, c) # {} => tree.nodes[c].parent = p)
    /\ [][(tree # <<>> /\ tree'.raised) => tree'.nodes = tree.nodes]_vars

(***************************************************************************)
(* Properties of the material table of an export.                          *)
(***************************************************************************)
\* same_as and the material made of a Blender material, of the exporter
\* that runs
SameAs(a, b) ==
    IF exporter = "AC3D" THEN Material_same_as(a, b) ELSE AcMat_same_as(a, b)

AcMaterialOf(bl_mat) ==
    IF exporter = "AC3D" THEN Material(bl_mat) ELSE from_blender_mat(bl_mat)

\* the exporter is at work or has just written the file
Exporting == exporter # "none" /\ pc \in {"idle", "header"}

\* C26: whatever objects have been registered so far, no two entries of the
\* material table are same_as each other, and every local material index of
\* every object is mapped to the index of an entry of the table that is
\* same_as the material in that slot.
C26_TableDistinct ==
    Exporting =>
        /\ \A i, j \in 1..Len(ex_mats) : i # j => ~SameAs(ex_mats[i], ex_mats[j])
        /\ \A n \in PolyNodes :
              LET slots == scene[ex_objs[n].bl].material_slots
                  xref == ex_objs[n].ac_mats
              IN  /\ Len(xref) = Len(slots)
                  /\ \A k \in 1..Len(slots) :
                        /\ xref[k] \in 0..(Len(ex_mats) - 1)
                        /\ SameAs(ex_mats[xref[k] + 1], AcMaterialOf(slots[k]))

\* Poly._parseMaterials has mapped the two materials of an object, both of
\* other names, to one entry that an earlier object put in the table, and
\* the table holds a second entry
C26_Witness ==
    /\ exporter = "AC3D"
    /\ Parsed
    /\ Len(ex_mats) = 2
    /\ \E n \in PolyNodes :
          /\ Len(ex_objs[n].ac_mats) = 2
          /\ ex_objs[n].ac_mats = <<0, 0>>
          /\ \A k \in 1..2 :
                scene[ex_objs[n].bl].material_slots[k].name # ex_mats[1].name

\* the MATERIAL lines of the file written are those of the table, entry i
\* on the line i + 1
TableAsWritten ==
    \A i \in 1..Len(ex_mats) : ac_file[i + 1] = write_ac_material(ex_mats[i])

\* C27: the material table only grows at its end: a step of the export
\* leaves every entry at its index and the ac_mats of every object parsed
\* before as they are, and the file written holds entry i as its i-th
\* MATERIAL line, so that an index stored earlier denotes the same material
\* when the file is written.
C27_AppendOnly ==
    [][exporter # "none" =>
          /\ Len(ex_mats') >= Len(ex_mats)
          /\ SubSeq(ex_mats', 1, Len(ex_mats)) = ex_mats
          /\ \A n \in 1..Len(ex_objs) : ex_objs'[n].ac_mats = ex_objs[n].ac_mats
          /\ (ex_pc = "write" /\ ex_pc' = "written") => TableAsWritten']_vars

\* the file is written; the table took a second entry after the first
\* object had stored its index 0, and a later object holds the index 1
C27_Witness ==
    /\ ex_pc = "written"
    /\ pc = "header"
    /\ Len(ex_mats) = 2
    /\ \E n, m \in PolyNodes :
          /\ n < m
          /\ ex_objs[n].ac_mats = <<0>>
          /\ \E k \in 1..Len(ex_objs[m].ac_mats) : ex_objs[m].ac_mats[k] = 1

(***************************************************************************)
(* Properties of the counts and indices of the written file.               *)
(***************************************************************************)
\* the number on the line i of the file, after its keyword
CountAt(i) == IntOf(Split(ac_file[i])[2])

\* the exporter has written the file and the importer has not started
JustWritten == ex_pc = "written" /\ pc = "header"

\* C28: in the file written every mat line of a SURF block names a material
\* of the file: its index is below the number of MATERIAL lines, also for a
\* mesh that has no material, whose surfaces are written with mat 0.
C28_MatIndexExists ==
    JustWritten =>
        \A i \in LinesOf("mat") : CountAt(i) < Cardinality(LinesOf("MATERIAL"))

\* the line holds three numbers and nothing else: a vertex or a ref
IsRecordLine(i) ==
    i \in 1..Len(ac_file) /\ Len(Split(ac_file[i])) = 3 /\ AllFloat(Split(ac_file[i]))

\* the count on the line i is followed by exactly that many lines of three
\* numbers
CountedRecords(i) ==
    /\ \A j \in 1..CountAt(i) : IsRecordLine(i + j)
    /\ ~IsRecordLine(i + CountAt(i) + 1)

\* the first line after the line i that starts with one of the words, 0 when
\* there is none
FirstAfter(i, words) ==
    LET later == { j \in (i + 1)..Len(ac_file) : LineKey(j) \in words }
    IN  IF later = {} THEN 0 ELSE SetMin(later)

\* the line after n complete OBJECT blocks that start at the line i, each
\* closed by its kids line and the blocks that line counts; 0 when the lines
\* from i on are not n such blocks
RECURSIVE SkipBlocks(_, _)
SkipBlocks(i, n) ==
    IF n = 0 THEN i
    ELSE IF i = 0 \/ i > Len(ac_file) \/ LineKey(i) # "OBJECT" THEN 0
    ELSE LET k == FirstAfter(i, {"kids", "OBJECT"})
         IN  IF k = 0 \/ LineKey(k) # "kids" THEN 0
             ELSE SkipBlocks(SkipBlocks(k + 1, CountAt(k)), n - 1)

\* the surfaces of the tree in the order they are written
SurfacesWritten ==
    LET walk == PreOrder(1)
    IN  Concat([k \in 1..Len(walk) |-> ex_objs[walk[k]].surf_list])

\* the lines after the refs line i are those of the surface s: the n-th ref
\* with the n-th UV, last to first for a flipped surface
RefsOf(i, s) ==
    /\ CountAt(i) = Len(s.refs)
    /\ Len(s.uv_refs) = Len(s.refs)
    /\ \A j \in 1..Len(s.refs) :
          LET n == IF s.is_flipped THEN Len(s.refs) + 1 - j ELSE j
          IN  ac_file[i + j] = IntStr(s.refs[n]) \o <<SP>> \o Fixed6(s.uv_refs[n][1])
                               \o <<SP>> \o Fixed6(s.uv_refs[n][2])

\* C29: in the file written every count is the number of records after it:
\* numvert N is followed by exactly N vertex lines, numsurf N by exactly N
\* SURF blocks, refs N by exactly N ref lines, the n-th ref of the surface
\* with its n-th UV (last to first for a flipped object), kids N by exactly
\* N OBJECT blocks; and every surface has 3 or 4 refs.
C29_CountsMatch ==
    JustWritten =>
        LET refs_lines == Sorted(LinesOf("refs"))
            surfs == SurfacesWritten
        IN  /\ \A i \in LinesOf("numvert") \cup LinesOf("refs") : CountedRecords(i)
            /\ \A i \in LinesOf("numsurf") :
                  Cardinality({ j \in LinesOf("SURF") : i < j /\ j < FirstAfter(i, {"kids"}) })
                      = CountAt(i)
            /\ Len(refs_lines) = Len(surfs)
            /\ Cardinality(LinesOf("SURF")) = Len(surfs)
            /\ \A k \in 1..Len(surfs) :
                  /\ RefsOf(refs_lines[k], surfs[k])
                  /\ CountAt(refs_lines[k]) \in {3, 4}
            /\ SkipBlocks(SetMin(LinesOf("OBJECT")), 1) = Len(ac_file) + 1

\* Surface.write has written a flipped quad with four different UVs, the
\* fourth ref and its UV first, and the world has two children
C29_Witness ==
    /\ JustWritten
    /\ exporter = "AC3D"
    /\ Len(ex_objs[1].children) = 2
    /\ \E i \in LinesOf("refs") :
          /\ CountAt(i) = 4
          /\ ac_file[i + 1] = <<"3", SP, "0.000000", SP, "1.000000">>
          /\ ac_file[i + 4] = <<"0", SP, "0.000000", SP, "0.000000">>

(***************************************************************************)
(* Termination of the read phase.  The importer is one sequential program: *)
(* Python runs __init__ and then the loops of the reader without a pause,  *)
(* so as long as a step of the reader is possible, one is taken.  This is  *)
(* weak fairness of the reader's steps.  For the steps of the loops the    *)
(* enabling condition is written out: every state with pc = "read" has a   *)
(* step, that of the loop on top of the stack (read_ac_file when the stack *)
(* is empty).                                                              *)
(***************************************************************************)
ReaderNext ==
    \/ read_ac_file
    \/ read_ac_object
    \/ read_vertices
    \/ read_surfaces
    \/ read_ac_surfaces
    \/ read_surf_refs
    \/ read_children

SpecImportFair ==
    /\ InitImport
    /\ [][NextImport]_vars
    /\ WF_vars(ImportAC3D_init)
    /\ ([]<>(pc # "read") \/ []<><<ReaderNext>>_vars)

LoopKinds == {"obj", "verts", "surfs", "surf", "refs", "kids"}

\* an iteration of a loop of the reader that leaves the reader at work
ReaderStep == pc = "read" /\ pc' = "read"

\* C30: the read phase ends on every input: read_ac_file comes to the end of
\* the input or stops with an error (or the header is rejected).  Every
\* iteration of a loop of the reader takes at least one further physical
\* line from the file or, at the end of the input, ends its loop; the reader
\* never goes back in the file, the line it hands out is the last line taken,
\* and line_num counts every physical line taken once, so that no line is
\* read twice.
C30_ReadTerminates ==
    /\ <>(pc \notin {"header", "read"})
    /\ [](pc = "read" => (stack = <<>> \/ Top(stack).k \in LoopKinds))
    /\ [][ReaderStep =>
            /\ \/ pos' > pos
               \/ /\ pos' = pos
                  /\ pos = Len(ac_file)
                  /\ Len(stack') < Len(stack)
            /\ line_num' - line_num = pos' - pos
            /\ (pos' > pos /\ HasWord(ac_file[pos'])) => lastline' = ac_file[pos']
            /\ readPrevious' = FALSE]_vars

\* a file of the largest tree, with whitespace-only lines, has been read to
\* its end through the loops for objects, vertices, surfaces, refs and
\* children
C30_Witness ==
    /\ pc = "create"
    /\ stack = <<>>
    /\ pos = Len(ac_file)
    /\ Len(objs) = MaxNodes
    /\ \E i \in 1..Len(ac_file) : ~HasWord(ac_file[i])
    /\ \E n \in 1..Len(objs) : objs[n].surf_list # <<>> /\ objs[n].vert_list # <<>>

=============================================================================
